---------------------------- MODULE Spec2Model ----------------------------
(***************************************************************************)
(* The trading engine of fightingBald/TradeBot: the trade-update stream    *)
(* consumer with its auto-protect policy (apps/engine/streams.py), the     *)
(* debounced position synchronizer (apps/engine/sync.py), the command      *)
(* processor (apps/engine/commands.py) and the order sizing rule           *)
(* (apps/engine/rules.py), over the State Store and Broker collaborators.  *)
(*                                                                         *)
(* Decimal quantities and percentages are integers counting tenths         *)
(* (15 is 1.5).  Python's None is the string "None" where a string is      *)
(* expected and the record NoneRec where an object is expected.            *)
(***************************************************************************)
EXTENDS Integers, Sequences, FiniteSets, TLC

VARIABLES
    settings,          \* the Settings object, fixed at start-up
    \* ---- State Store ----
    protection_links,  \* links of the engine's profile: entry order id ->
                       \* protection order id, or None
    protection_links_other, \* the same for the links stored under another profile id
    store_orders,      \* broker order id -> source tag of the stored order, or Absent
    store_fills,       \* the rows of the fills table, in insertion order
    store_positions,   \* cached position snapshot of the engine's profile:
                       \* symbols held -> quantity
    store_positions_other, \* position rows stored under another profile id
    \* ---- Broker ----
    broker_positions,  \* live positions: symbols held -> quantity
    broker_orders,     \* sequence of the trailing-stop orders the broker accepted
    broker_closes,     \* number of close_all_positions calls the broker executed
    \* ---- trade-update stream worker (run_trading_stream) ----
    stream_pc,         \* "starting" | "connecting" | "running" | "failed" |
                       \* "sleeping" | "returned"
    backoff_seconds,   \* the local backoff_seconds of run_trading_stream
    attempts,          \* number of connection attempts that have ended, counted
                       \* up to MaxAttempts
    slept,             \* the last backoff sleep: [base, jitter] (jitter in tenths)
    last_update,       \* the last on_trade_update: how it ended, whether it signalled
                       \* the refresh, its event, whether the broker failed a
                       \* submission it made
    loop_callbacks,    \* a refresh_event.set callback is queued on the event loop
    refresh_event,     \* the asyncio.Event shared with the synchronizer
    \* ---- position synchronizer (sync_positions_loop) ----
    sync_pc,           \* "wait" | "cooldown" | "fetch" | "write" | "stamp" | "failed"
    triggered_by_event,
    wait_left,         \* time left of the wait_for timeout
    sleep_left,        \* time left of the asyncio.sleep in progress
    since_last_sync_at,\* time.monotonic() - last_sync_at, saturated
    fetched,           \* positions returned by the get_positions of this iteration
    sync_log,          \* history of the synchronizer: whether a sync succeeded, the
                       \* time since it completed, the gap before the last fetch,
                       \* the last cooldown, a signal not yet followed by a fetch,
                       \* the snapshot the last successful write replaced, the
                       \* signals set since the flag was last clear, the syncs
                       \* triggered by the signal since it was last set, the time
                       \* since the last get_positions call began, the gap before
                       \* it, and whether the last iteration failed
    \* ---- command processor (command_loop / handle_command) ----
    cmd_pc,            \* "consume" | "handle" | "close" | "clear" | "submit" | "persist"
    cmd_current,       \* the command being handled, or None
    cmd_request,       \* the TrailingStopOrderRequest built for it, or None
    cmd_order,         \* the Order the broker returned for it, or None
    cmd_calls,         \* collaborator calls made for the current / last command
    cmd_log,           \* history of the command loop: commands consumed, outcome of
                       \* the last one, whether an earlier one raised, the command
                       \* ids the broker accepted an order for, whether a kill
                       \* switch was handled to its end
    \* ---- the order sizing rule (coerce_tif_for_fractional) ----
    rule_qty,          \* the quantity it is called with
    rule_tif,          \* the time in force it is called with
    rule_out,          \* what it returned, None before the call
    \* ---- the State Store called on its own ----
    order_records,     \* the rows of the orders table, in the order of their insertion
    store_calls,       \* the last call made and its outcome, and the (profile, entry
                       \* order id) pairs whose create_protection_link inserted a row
    \* ---- the supervisor (run_engine) ----
    engine,            \* its position, the collaborators it built, the workers it
                       \* started, what it closed and how it ended
    \* ---- the Command Bus (RedisCommandBus) ----
    bus                \* the Redis list, the commands published and the commands
                       \* consume yielded, each with its place in publish order

vars == << settings, protection_links, protection_links_other, store_orders, store_fills, store_positions,
           store_positions_other,
           broker_positions, broker_orders, broker_closes,
           stream_pc, backoff_seconds, attempts, slept,
           last_update, loop_callbacks, refresh_event,
           sync_pc, triggered_by_event, wait_left, sleep_left, since_last_sync_at,
           fetched, sync_log,
           cmd_pc, cmd_current, cmd_request, cmd_order, cmd_calls, cmd_log,
           rule_qty, rule_tif, rule_out, store_calls, order_records, engine, bus >>

storeVars  == << protection_links, protection_links_other, store_orders, store_fills,
                 store_positions, store_positions_other >>
brokerVars == << broker_positions, broker_orders, broker_closes >>
streamVars == << stream_pc, backoff_seconds, attempts, slept,
                 last_update, loop_callbacks >>
syncVars   == << sync_pc, triggered_by_event, wait_left, sleep_left,
                 since_last_sync_at, fetched, sync_log >>
cmdVars    == << cmd_pc, cmd_current, cmd_request, cmd_order, cmd_calls, cmd_log >>
ruleVars   == << rule_qty, rule_tif, rule_out >>
\* the variables no worker writes
unitVars   == << rule_qty, rule_tif, rule_out, store_calls, order_records, engine, bus >>

None == "None"
NoneRec == [none |-> TRUE]

-----------------------------------------------------------------------------
(* Bounds of the model *)

\* trailing-stop orders the broker accepts in one run
MaxOrders == 2
\* connection attempts of the stream worker that end in one run
MaxAttempts == 4
\* the largest quantity the order sizing rule is called with, in tenths
MaxQty == 30
\* commands the command loop consumes in one run
MaxCommands == 2
MaxFills == 6
MaxPublished == 3

-----------------------------------------------------------------------------
(* Values *)

EntryIds == {"O1", "O2"}
\* order ids the broker hands out for accepted trailing-stop orders, in order
BrokerIdSeq == << "P1", "P2", "P3", "P4", "P5", "P6" >>
BrokerIds == {BrokerIdSeq[i] : i \in 1..Len(BrokerIdSeq)}
OrderIds == EntryIds \cup BrokerIds

\* no position held
NoPositions == [y \in {} |-> 0]

Min(a, b) == IF a < b THEN a ELSE b
Max(a, b) == IF a < b THEN b ELSE a

\* str.upper() on the symbol spellings of the model
Upper(s) ==
    CASE s = "aapl" -> "AAPL"
      [] s = "AAPL" -> "AAPL"
      [] s = "msft" -> "MSFT"
      [] s = "MSFT" -> "MSFT"
      [] OTHER -> s

\* str.lower() on the other spellings of the model
Lower(s) ==
    CASE s = "OCO" -> "oco"
      [] s = "Bracket" -> "bracket"
      [] s = "OrderClass.BRACKET" -> "orderclass.bracket"
      [] s = "FILL" -> "fill"
      [] s = "TradeEvent.FILL" -> "tradeevent.fill"
      [] OTHER -> s

\* _normalize_enum_text: the last dotted component, lower-cased
NormalizeEnumText(v) ==
    CASE v = "OrderSide.BUY" -> "buy"
      [] v = "OrderSide.SELL" -> "sell"
      [] v = "BUY" -> "buy"
      [] v = "OrderType.MARKET" -> "market"
      [] v = "OrderType.LIMIT" -> "limit"
      [] v = "None" -> "none"
      [] v = "OrderClass.BRACKET" -> "bracket"
      [] OTHER -> Lower(v)

\* TimeInForce(text): the enum has the values "day" and "gtc"; anything else
\* raises ValueError
TimeInForceValues == {"day", "gtc"}

\* Decimal("Infinity"): a quantity for which qty % 1 raises InvalidOperation
Infinity == 1000000

IsFractional_Uncaught(qty) == qty % 10 # 0

\* _is_fractional: qty % 1 != 0, True when the comparison raises
IsFractional(qty) == IF qty = Infinity THEN TRUE ELSE qty % 10 # 0

CoerceTifForFractional_NoCoercion(qty, tif) == tif

\* coerce_tif_for_fractional
CoerceTifForFractional(qty, tif) ==
    IF IsFractional(qty) /\ tif = "gtc" THEN "day" ELSE tif


-----------------------------------------------------------------------------
(* State Store and Broker operations *)

Absent == "absent"

\* SqlAlchemyStateStore.upsert_order: one record per broker order id; an existing
\* record keeps its source unless a source is given
UpsertOrder(orders, order_id, source) ==
    IF orders[order_id] = Absent
    THEN [orders EXCEPT ![order_id] = source]
    ELSE IF source # None
         THEN [orders EXCEPT ![order_id] = source]
         ELSE orders

\* the profile ids that own rows of the positions table
OtherProfile == "other"

\* an Order as the broker reports it: the fields upsert_order stores that change
\* over an order's life
Order(order_id, client_order_id, status, filled_qty, updated_at) ==
    [order_id |-> order_id, client_order_id |-> client_order_id, status |-> status,
     filled_qty |-> filled_qty, updated_at |-> updated_at]

\* _order_to_record
OrderToRecord(profile_id, order, source) ==
    [profile_id |-> profile_id, broker_order_id |-> order.order_id,
     client_order_id |-> order.client_order_id, status |-> order.status,
     filled_qty |-> order.filled_qty, source |-> source,
     updated_at |-> order.updated_at]

ApplyOrderUpdate_KeepsSource(record, order, source) ==
    [record EXCEPT !.client_order_id = IF order.client_order_id # None
                                       THEN order.client_order_id ELSE @,
                   !.status = order.status,
                   !.filled_qty = order.filled_qty,
                   !.updated_at = order.updated_at]

\* _apply_order_update: the record takes the order's fields; client_order_id
\* and source are kept when the update brings none
ApplyOrderUpdate(record, order, source) ==
    [record EXCEPT !.client_order_id = IF order.client_order_id # None
                                       THEN order.client_order_id ELSE @,
                   !.status = order.status,
                   !.filled_qty = order.filled_qty,
                   !.updated_at = order.updated_at,
                   !.source = IF source # None THEN source ELSE @]

\* select(OrderRecord).where(broker_order_id == order.order_id): the places of
\* the matching rows
ExistingOrderRecords(records, order_id) ==
    { i \in 1..Len(records) : records[i].broker_order_id = order_id }

UpsertOrderRecord_Insert(records, profile_id, order, source) ==
    Append(records, OrderToRecord(profile_id, order, source))

\* SqlAlchemyStateStore.upsert_order on the rows of the orders table
UpsertOrderRecord(records, profile_id, order, source) ==
    LET existing == ExistingOrderRecords(records, order.order_id)
    IN  IF existing # {}
        THEN LET i == CHOOSE k \in existing : TRUE
             IN  [records EXCEPT ![i] = ApplyOrderUpdate(records[i], order, source)]
        ELSE Append(records, OrderToRecord(profile_id, order, source))
Profiles == {"default", OtherProfile}

\* the positions table, read by profile id
PositionsTable(own, other) ==
    [p \in Profiles |-> IF p = OtherProfile THEN other ELSE own]

\* a write that keeps the rows of the symbols the new snapshot does not hold
ReplacePositions_Merge(table, profile_id, positions) ==
    [table EXCEPT ![profile_id] =
        [y \in DOMAIN positions \cup DOMAIN table[profile_id] |->
            IF y \in DOMAIN positions THEN positions[y] ELSE table[profile_id][y]]]

\* SqlAlchemyStateStore._replace_positions: delete the rows of profile_id, then
\* add one row per position
ReplacePositions(table, profile_id, positions) ==
    [table EXCEPT ![profile_id] = positions]

\* a Fill: price and filled_at are << >> for None, << v >> for a value
Fill(order_id, qty, price, filled_at) ==
    [order_id |-> order_id, qty |-> qty, price |-> price, filled_at |-> filled_at]

\* the columns record_fill looks an existing row up by
FillKey(row) == << row.order_id, row.qty, row.price, row.filled_at >>

\* the lookup of record_fill: a row with the fill's order id, quantity, price and
\* fill time, whatever its profile id
FillStored(fills, fill) ==
    \E i \in 1..Len(fills) : FillKey(fills[i]) = FillKey(fill)

RecordFill_NoLookup(fills, profile_id, fill) ==
    Append(fills, [profile_id |-> profile_id, order_id |-> fill.order_id,
                   qty |-> fill.qty, price |-> fill.price,
                   filled_at |-> fill.filled_at])

\* SqlAlchemyStateStore.record_fill: returns when the lookup finds a row, adds a
\* row otherwise
RecordFill(fills, profile_id, fill) ==
    IF FillStored(fills, fill)
    THEN fills
    ELSE Append(fills, [profile_id |-> profile_id, order_id |-> fill.order_id,
                        qty |-> fill.qty, price |-> fill.price,
                        filled_at |-> fill.filled_at])

\* the protection_links table, read by profile id
LinksTable(own, other) ==
    [p \in Profiles |-> IF p = OtherProfile THEN other ELSE own]

HasProtectionLink_AnyEntry(table, profile_id, entry_order_id) ==
    \E entry \in DOMAIN table[profile_id] : table[profile_id][entry] # None

HasProtectionLink_Never(table, profile_id, entry_order_id) == FALSE

\* SqlAlchemyStateStore.has_protection_link
HasProtectionLink(table, profile_id, entry_order_id) ==
    table[profile_id][entry_order_id] # None

LinkInsertRejected_Never(table, profile_id, entry_order_id) == FALSE

\* ProtectionLinkRecord.entry_order_id is unique: create_protection_link raises
\* when its lookup by profile finds no row and a row of another profile has the
\* entry order id
LinkInsertRejected(table, profile_id, entry_order_id) ==
    /\ table[profile_id][entry_order_id] = None
    /\ \E p \in Profiles : table[p][entry_order_id] # None

\* SqlAlchemyStateStore.create_protection_link, when the insert is not rejected:
\* returns when the lookup by profile finds a row, adds a row otherwise
CreateProtectionLink(table, profile_id, entry_order_id, protection_order_id) ==
    IF table[profile_id][entry_order_id] # None
    THEN table
    ELSE [table EXCEPT ![profile_id][entry_order_id] = protection_order_id]

\* the order the broker returns for an accepted request; entry is the entry
\* order id auto-protect submitted it for (None for a command's order)
AcceptedOrder(orders, request, entry) ==
    [order_id |-> BrokerIdSeq[Len(orders) + 1],
     client_order_id |-> request.client_order_id,
     side |-> request.side,
     entry |-> entry]

-----------------------------------------------------------------------------
(* Trade updates *)

BasePayload(id) ==
    [id |-> id, symbol |-> "aapl", side |-> "OrderSide.BUY", type |-> "market",
     order_class |-> "simple", legs |-> FALSE, stop_loss |-> FALSE,
     take_profit |-> FALSE, filled_qty |-> 20, filled_qty_is_decimal |-> TRUE]

\* order payloads that auto-protect skips before it calls a collaborator, and the
\* payload whose quantity is no decimal
VariantPayloads(id) ==
    LET b == BasePayload(id) IN
    { [b EXCEPT !.side = "sell"],
      [b EXCEPT !.type = "stop"],
      [b EXCEPT !.order_class = "bracket"],
      [b EXCEPT !.order_class = "OCO", !.side = "sell"],
      [b EXCEPT !.take_profit = TRUE, !.type = "stop"],
      [b EXCEPT !.symbol = ""],
      [b EXCEPT !.filled_qty_is_decimal = FALSE] }

\* order payloads that reach the protection-link check; the last one is a
\* bracket order as the feed's own order model dumps it: its order_class is the
\* enum member OrderClass.BRACKET, its legs are not given
EligiblePayloads(id) ==
    LET b == BasePayload(id)
    IN  { b, [b EXCEPT !.type = "OrderType.LIMIT"],
          [b EXCEPT !.order_class = "OrderClass.BRACKET"] }

Payloads ==
    UNION {VariantPayloads(id) \cup EligiblePayloads(id) : id \in EntryIds}
        \cup {BasePayload(None)}

\* which collaborator calls fail while one update is handled: the upsert of the
\* order, the recording of the fill, and the first failing call of auto-protect
FaultPoints == {"none", "has_protection_link", "get_positions", "submit",
                "upsert_order", "create_protection_link"}
NoFault == [order |-> FALSE, fill |-> FALSE, protect |-> "none"]
StoreFaults == [order : BOOLEAN, fill : BOOLEAN, protect : {"none"}]
Faults == StoreFaults \cup [order : {FALSE}, fill : {FALSE}, protect : FaultPoints]
             \cup [order : {TRUE}, fill : {TRUE}, protect : {"submit"}]

Update(event, payload, fault) ==
    [data |-> [event |-> event, order |-> payload], fault |-> fault]

\* the trade updates the feed delivers, each with the faults the collaborators
\* show while it is handled: fills of every payload, other events, and an update
\* without an order payload
StreamFeed ==
    UNION { { Update("fill", p, f) : p \in EligiblePayloads(id), f \in Faults }
              \cup { Update("fill", p, f) : p \in VariantPayloads(id), f \in StoreFaults }
              \cup { Update(e, BasePayload(id), NoFault) : e \in {"new", "partial_fill"} }
              \cup { Update("new", BasePayload(id), [NoFault EXCEPT !.order = TRUE]) }
            : id \in EntryIds }
        \cup { Update("fill", BasePayload(None), NoFault),
               Update("fill", NoneRec, NoFault),
               Update("canceled", NoneRec, NoFault) }

\* _order_type
OrderType(payload) == NormalizeEnumText(payload.type)

\* _order_side
OrderSideOf(payload) == NormalizeEnumText(payload.side)

\* _has_bracket
HasBracket(payload) ==
    \/ Lower(payload.order_class) \in {"bracket", "oco", "oto"}
    \/ payload.legs \/ payload.stop_loss \/ payload.take_profit

\* _resolve_position_qty over the positions get_positions returned (a function
\* from the symbols held to their quantities): << >> is None, << q >> is q
ResolvePositionQty(positions, symbol) ==
    IF symbol \in DOMAIN positions THEN << positions[symbol] >> ELSE << >>

\* Order.from_alpaca raises for a payload without an order id or with a quantity
\* that is no decimal
FromAlpacaRaises(payload) == payload.id = None \/ ~payload.filled_qty_is_decimal

\* _build_fill_from_order: kind "none" (returns None), "fill" (a Fill; the
\* payloads carry no price and no time) or "raise" (Decimal(str(qty)) of a
\* quantity that is no decimal)
BuildFillFromOrder(payload) ==
    IF payload.id = None \/ payload.symbol = "" \/ OrderSideOf(payload) = ""
    THEN [kind |-> "none", fill |-> NoneRec]
    ELSE IF ~payload.filled_qty_is_decimal THEN [kind |-> "raise", fill |-> NoneRec]
    ELSE [kind |-> "fill",
          fill |-> Fill(payload.id, payload.filled_qty, << >>, << >>)]

\* the client order id of a protective order: "auto-protect-" + order_id[:20]
AutoProtectClientId(order_id) == << "auto-protect", order_id >>

\* result of a piece of handler code: the stores and broker after it, the calls
\* it made, the requests it handed to the broker, whether it ended by raising
Result(st, calls, requests, raised) ==
    [st |-> st, calls |-> calls, requests |-> requests, raised |-> raised]

\* _auto_protect_context: order_id, symbol, skip_reason, plus calls / raised
AutoProtectContext(payload, s, st, fault) ==
    LET order_id == payload.id
        symbol == Upper(payload.symbol)
        ctx(o, y, reason, calls, raised) ==
            [order_id |-> o, symbol |-> y, skip_reason |-> reason,
             calls |-> calls, raised |-> raised]
    IN  IF order_id = None \/ symbol = ""
        THEN ctx(None, None, "missing_order_fields", << >>, FALSE)
        ELSE IF OrderSideOf(payload) # "buy"
        THEN ctx(order_id, symbol, "non_buy_order", << >>, FALSE)
        ELSE IF OrderType(payload) \notin s.engine_auto_protect_order_types
        THEN ctx(order_id, symbol, "order_type", << >>, FALSE)
        ELSE IF HasBracket(payload)
        THEN ctx(order_id, symbol, "bracket_or_legs", << >>, FALSE)
        ELSE IF fault.protect = "has_protection_link"
        THEN ctx(order_id, symbol, None, << "store.has_protection_link" >>, TRUE)
        ELSE IF HasProtectionLink(LinksTable(st.links, st.links_other),
                                  s.engine_profile_id, order_id)
        THEN ctx(order_id, symbol, "already_linked", << "store.has_protection_link" >>, FALSE)
        ELSE ctx(order_id, symbol, None, << "store.has_protection_link" >>, FALSE)

SubmitFailed_Raises(st, calls, request) == Result(st, calls, << request >>, TRUE)

\* lines 144-146: except Exception: the failure is logged and the policy returns
SubmitFailed(st, calls, request) == Result(st, calls, << request >>, FALSE)

\* _auto_protect_on_fill, from the resolved context on (lines 119-150)
AutoProtectSubmit(ctx, s, st, live, fault) ==
    IF fault.protect = "get_positions"
    THEN Result(st, << "broker.get_positions" >>, << >>, TRUE)
    ELSE
    LET resolved == ResolvePositionQty(live, ctx.symbol)
        qty == resolved[1]
        c1 == << "broker.get_positions" >>
    IN  IF resolved = << >> THEN Result(st, c1, << >>, FALSE)
        ELSE IF qty <= 0 THEN Result(st, c1, << >>, FALSE)
        ELSE IF s.engine_trailing_sell_tif \notin TimeInForceValues
        THEN Result(st, c1, << >>, FALSE)
        ELSE
        LET tif == CoerceTifForFractional(qty, s.engine_trailing_sell_tif)
            request == [symbol |-> ctx.symbol, side |-> "sell", qty |-> qty,
                        trail_percent |-> s.engine_trailing_default_percent,
                        time_in_force |-> tif,
                        client_order_id |-> AutoProtectClientId(ctx.order_id)]
            c2 == Append(c1, "broker.submit_trailing_stop_order")
        IN  IF fault.protect = "submit" THEN SubmitFailed(st, c2, request)
            ELSE
            LET protection_order == AcceptedOrder(st.border, request, ctx.order_id)
                st1 == [st EXCEPT !.border = Append(st.border, protection_order)]
                c3 == Append(c2, "store.upsert_order")
            IN  IF fault.protect = "upsert_order"
                THEN Result(st1, c3, << request >>, TRUE)
                ELSE
                LET st2 == [st1 EXCEPT !.orders =
                               UpsertOrder(st1.orders, protection_order.order_id,
                                           "auto_protect")]
                    c4 == Append(c3, "store.create_protection_link")
                    table == LinksTable(st2.links, st2.links_other)
                IN  IF \/ fault.protect = "create_protection_link"
                       \/ LinkInsertRejected(table, s.engine_profile_id, ctx.order_id)
                    THEN Result(st2, c4, << request >>, TRUE)
                    ELSE Result([st2 EXCEPT !.links =
                                    CreateProtectionLink(table, s.engine_profile_id,
                                        ctx.order_id,
                                        protection_order.order_id)[s.engine_profile_id]],
                                c4, << request >>, FALSE)

\* _auto_protect_on_fill
AutoProtectOnFill(payload, s, st, live, fault) ==
    IF ~s.engine_auto_protect_enabled THEN Result(st, << >>, << >>, FALSE)
    ELSE
    LET ctx == AutoProtectContext(payload, s, st, fault)
    IN  IF ctx.raised THEN Result(st, ctx.calls, << >>, TRUE)
        ELSE IF ctx.skip_reason # None THEN Result(st, ctx.calls, << >>, FALSE)
        ELSE LET r == AutoProtectSubmit(ctx, s, st, live, fault)
             IN  Result(r.st, ctx.calls \o r.calls, r.requests, r.raised)

IsFillEvent_Any(event) == TRUE

\* lines 182, 194: event_name = str(event).lower(); event_name == "fill"
IsFillEvent(event) == Lower(event) = "fill"

\* process_trade_update
ProcessTradeUpdate(data, s, st, live, fault) ==
    IF data.order = NoneRec THEN Result(st, << >>, << >>, FALSE)
    ELSE
    LET payload == data.order
        \* try: Order.from_alpaca + store.upsert_order; except: log
        parsed == ~FromAlpacaRaises(payload)
        st1 == IF parsed /\ ~fault.order
               THEN [st EXCEPT !.orders = UpsertOrder(st.orders, payload.id, "trade_update")]
               ELSE st
        c1 == IF parsed THEN << "store.upsert_order" >> ELSE << >>
    IN  IF ~IsFillEvent(data.event) THEN Result(st1, c1, << >>, FALSE)
        ELSE
        LET fill == BuildFillFromOrder(payload)
        IN  IF fill.kind = "raise" THEN Result(st1, c1, << >>, TRUE)
            ELSE
            LET st2 == IF fill.kind = "fill" /\ ~fault.fill
                       THEN [st1 EXCEPT !.fills = RecordFill(st1.fills, s.engine_profile_id,
                                                             fill.fill)]
                       ELSE st1
                c2 == IF fill.kind = "fill" THEN Append(c1, "store.record_fill") ELSE c1
                r == AutoProtectOnFill(payload, s, st2, live, fault)
            IN  Result(r.st, c2 \o r.calls, r.requests, r.raised)

-----------------------------------------------------------------------------
(* The trade-update stream worker: run_trading_stream *)

\* max_backoff = max(1, settings.engine_trading_ws_max_backoff_seconds)
MaxBackoff(s) == Max(1, s.engine_trading_ws_max_backoff_seconds)

NextBackoff_Uncapped(backoff, max_backoff) == backoff * 2

\* backoff_seconds = min(backoff_seconds * 2, max_backoff)
NextBackoff(backoff, max_backoff) == Min(backoff * 2, max_backoff)

\* random.uniform(0, 0.5), in tenths
Jitters == {0, 3, 5}

\* the stores and the broker as the handler's code sees them
StreamWorld ==
    [links |-> protection_links, links_other |-> protection_links_other,
     orders |-> store_orders, fills |-> store_fills, border |-> broker_orders]

\* what on_trade_update does with update m: process_trade_update on the current
\* stores, broker and settings
Handled(m) ==
    ProcessTradeUpdate(m.data, settings, StreamWorld, broker_positions, m.fault)

\* a worker that returns when the sleep is over
StreamWake_Returns ==
    /\ stream_pc = "sleeping"
    /\ stream_pc' = "returned"
    /\ UNCHANGED << settings, storeVars, brokerVars, backoff_seconds, attempts, slept,
                    last_update, loop_callbacks, refresh_event, syncVars, cmdVars,
                    unitVars >>

\* lines 216-223: the import of the stream library succeeds and the loop is
\* entered, or it raises, which is logged, and run_trading_stream returns
StreamStart ==
    /\ stream_pc = "starting"
    /\ stream_pc' \in {"connecting", "returned"}
    /\ UNCHANGED << settings, storeVars, brokerVars, backoff_seconds, attempts, slept,
                    last_update, loop_callbacks, refresh_event, syncVars, cmdVars,
                    unitVars >>

\* a worker that starts every connection with the initial backoff
StreamConnect_Resets ==
    /\ stream_pc = "connecting"
    /\ stream_pc' = "running"
    /\ backoff_seconds' = 1
    /\ UNCHANGED << settings, storeVars, brokerVars, attempts, slept,
                    last_update, loop_callbacks, refresh_event, syncVars, cmdVars,
                    unitVars >>

\* TradingStream(...); subscribe_trade_updates; stream.run() starts
StreamConnect ==
    /\ stream_pc = "connecting"
    /\ stream_pc' = "running"
    /\ UNCHANGED << settings, storeVars, brokerVars, backoff_seconds, attempts, slept,
                    last_update, loop_callbacks, refresh_event, syncVars, cmdVars,
                    unitVars >>

\* what follows an exception that leaves on_trade_update: the subscription
\* library either contains it and goes on with the connection, or stream.run()
\* raises and the connection attempt has failed
AfterEscape ==
    \/ stream_pc' = stream_pc
    \/ stream_pc' = "failed"

\* a handler run handed a request to the broker and the broker accepted none
SubmissionRejected(r, border) ==
    r.requests # << >> /\ Len(r.st.border) = Len(border)

\* the subscription receives a trade update of the feed and calls
\* on_trade_update: process_trade_update, then _signal_refresh
OnTradeUpdate(feed) ==
    /\ stream_pc = "running"
    /\ Len(broker_orders) < MaxOrders
    /\ \E m \in feed :
         LET r == Handled(m)
         IN  /\ protection_links' = r.st.links
             /\ store_orders' = r.st.orders
             /\ store_fills' = r.st.fills
             /\ broker_orders' = r.st.border
             /\ IF r.raised
                THEN /\ last_update' = [outcome |-> "raised", signalled |-> FALSE,
                                        event |-> m.data.event,
                                        rejected |-> SubmissionRejected(r, broker_orders),
                                        connection |-> attempts]
                     /\ loop_callbacks' = loop_callbacks
                     /\ AfterEscape
                ELSE /\ last_update' = [outcome |-> "returned", signalled |-> TRUE,
                                        event |-> m.data.event,
                                        rejected |-> SubmissionRejected(r, broker_orders),
                                        connection |-> attempts]
                     /\ loop_callbacks' = TRUE
                     /\ stream_pc' = stream_pc
    /\ UNCHANGED << settings, protection_links_other, store_positions,
                    store_positions_other, broker_positions, broker_closes,
                    backoff_seconds, attempts, slept, refresh_event, syncVars, cmdVars,
                    unitVars >>

\* loop.call_soon_threadsafe(refresh_event.set): the event loop runs the callback
RunCallback ==
    /\ loop_callbacks
    /\ loop_callbacks' = FALSE
    /\ refresh_event' = TRUE
    /\ sync_log' = [sync_log EXCEPT !.unsynced = TRUE,
                                    !.signals = IF refresh_event
                                                THEN Min(sync_log.signals + 1, 2)
                                                ELSE 1,
                                    !.triggered_syncs = 0]
    /\ UNCHANGED << settings, storeVars, brokerVars, stream_pc, backoff_seconds,
                    attempts, slept, last_update, sync_pc, triggered_by_event,
                    wait_left, sleep_left, since_last_sync_at, fetched, cmdVars,
                    unitVars >>

\* stream.run() has returned ("stopped") or raised ("stopped unexpectedly"):
\* jitter = random.uniform(0, 0.5); time.sleep(backoff_seconds + jitter) starts
StreamStop ==
    /\ stream_pc \in {"running", "failed"}
    /\ \E jitter \in Jitters :
          slept' = [base |-> backoff_seconds, jitter |-> jitter, after |-> stream_pc]
    /\ attempts' = Min(attempts + 1, MaxAttempts)
    /\ stream_pc' = "sleeping"
    /\ UNCHANGED << settings, storeVars, brokerVars, backoff_seconds,
                    last_update, loop_callbacks, refresh_event, syncVars, cmdVars,
                    unitVars >>

\* the sleep ends; the backoff doubles up to the maximum; the loop reconnects
StreamWake ==
    /\ stream_pc = "sleeping"
    /\ backoff_seconds' = NextBackoff(backoff_seconds, MaxBackoff(settings))
    /\ stream_pc' = "connecting"
    /\ UNCHANGED << settings, storeVars, brokerVars, attempts, slept,
                    last_update, loop_callbacks, refresh_event, syncVars, cmdVars,
                    unitVars >>

\* stream.run() has raised: the except clause logs and the loop goes on
StreamStopAfterFailure == stream_pc = "failed" /\ StreamStop

-----------------------------------------------------------------------------
(* The position synchronizer: sync_positions_loop *)

\* Time is counted in seconds. The loop compares the age of last_sync_at only
\* with min_interval_seconds, so ages are counted up to that value.
AgeCap(s) == s.engine_sync_min_interval_seconds

\* the retry delay after a failed iteration is one second, so the time since a
\* GetPositions call began is counted up to the larger of the two
CallAgeCap(s) == Max(AgeCap(s), 1)

Cooldown_None(min_interval_seconds, elapsed) == 0

\* lines 37-41: the cooldown slept before the fetch, 0 for none
Cooldown(min_interval_seconds, elapsed) ==
    IF min_interval_seconds > 0 /\ elapsed < min_interval_seconds
    THEN min_interval_seconds - elapsed
    ELSE 0

\* the sync log when a GetPositions call begins: the time since the previous
\* successful sync completed (-1 without one); no signal is waiting for a fetch;
\* the time since the previous GetPositions call began (-1 without one) and
\* whether the iteration of that call failed
BeginFetch(log) ==
    [log EXCEPT !.fetch_gap = IF log.synced THEN log.since_success ELSE -1,
                !.unsynced = FALSE,
                !.call_gap = log.since_call,
                !.after_failure = log.failed,
                !.since_call = 0]

\* the sync log when the wait is over: one more sync triggered by the signal
\* since the signal was last set, if the signal ended the wait
Waited(log, triggered) ==
    IF triggered
    THEN [log EXCEPT !.triggered_syncs = Min(log.triggered_syncs + 1, 2)]
    ELSE log

\* lines 34-45 once the wait is over: clear is done by the caller; cooldown
\* sleep if the last sync is too recent, else the fetch begins
AfterWait(triggered) ==
    LET cooldown == Cooldown(settings.engine_sync_min_interval_seconds,
                             since_last_sync_at)
    IN  /\ triggered_by_event' = triggered
        /\ sleep_left' = cooldown
        /\ IF cooldown > 0
           THEN /\ sync_pc' = "cooldown"
                /\ sync_log' = [Waited(sync_log, triggered) EXCEPT !.cooldown = cooldown]
           ELSE /\ sync_pc' = "fetch"
                /\ sync_log' = BeginFetch([Waited(sync_log, triggered) EXCEPT !.cooldown = 0])

\* wait_for(refresh_event.wait()) returns: triggered_by_event, refresh_event.clear()
SyncWaitEvent_KeepsSignal ==
    /\ sync_pc = "wait"
    /\ refresh_event
    /\ refresh_event' = refresh_event
    /\ AfterWait(TRUE)
    /\ UNCHANGED << settings, storeVars, brokerVars, streamVars, wait_left,
                    since_last_sync_at, fetched, cmdVars, unitVars >>

SyncWaitEvent ==
    /\ sync_pc = "wait"
    /\ refresh_event
    /\ refresh_event' = FALSE
    /\ AfterWait(TRUE)
    /\ UNCHANGED << settings, storeVars, brokerVars, streamVars, wait_left,
                    since_last_sync_at, fetched, cmdVars, unitVars >>

\* wait_for times out after interval_seconds: the event is left as it is
SyncWaitTimeout ==
    /\ sync_pc = "wait"
    /\ wait_left = 0
    /\ AfterWait(FALSE)
    /\ UNCHANGED << settings, storeVars, brokerVars, streamVars, refresh_event,
                    wait_left, since_last_sync_at, fetched, cmdVars,
                    unitVars >>

\* asyncio.sleep(cooldown) is over: the fetch begins
SyncCooldownEnd ==
    /\ sync_pc = "cooldown"
    /\ sleep_left = 0
    /\ sync_pc' = "fetch"
    /\ sync_log' = BeginFetch(sync_log)
    /\ UNCHANGED << settings, storeVars, brokerVars, streamVars, refresh_event,
                    triggered_by_event, wait_left, sleep_left, since_last_sync_at,
                    fetched, cmdVars, unitVars >>

SyncFailed_Stops ==
    /\ sync_pc' = "stopped"
    /\ sleep_left' = 1
    /\ sync_log' = [sync_log EXCEPT !.failed = TRUE]

SyncFailed_NoDelay ==
    /\ sync_pc' = "failed"
    /\ sleep_left' = 0
    /\ sync_log' = [sync_log EXCEPT !.failed = TRUE]

\* except Exception: log; asyncio.sleep(1) starts
SyncFailed ==
    /\ sync_pc' = "failed"
    /\ sleep_left' = 1
    /\ sync_log' = [sync_log EXCEPT !.failed = TRUE]

\* broker.get_positions returns the account's positions, or raises
SyncFetch ==
    /\ sync_pc = "fetch"
    /\ \/ /\ fetched' = broker_positions
          /\ sync_pc' = "write"
          /\ sleep_left' = sleep_left
          /\ sync_log' = sync_log
       \/ /\ fetched' = fetched
          /\ SyncFailed
    /\ UNCHANGED << settings, storeVars, brokerVars, streamVars, refresh_event,
                    triggered_by_event, wait_left, since_last_sync_at,
                    cmdVars, unitVars >>

\* store.upsert_positions(profile_id, positions) replaces the cached positions,
\* or raises
SyncWrite ==
    /\ sync_pc = "write"
    /\ \/ /\ LET table == ReplacePositions(
                              PositionsTable(store_positions, store_positions_other),
                              settings.engine_profile_id, fetched)
             IN /\ store_positions' = table[settings.engine_profile_id]
                /\ store_positions_other' = table[OtherProfile]
          /\ sync_pc' = "stamp"
          /\ sleep_left' = sleep_left
          /\ sync_log' = [sync_log EXCEPT !.synced = TRUE, !.since_success = 0,
                                          !.previous = store_positions,
                                          !.failed = FALSE]
       \/ /\ UNCHANGED << store_positions, store_positions_other >>
          /\ SyncFailed
    /\ UNCHANGED << settings, protection_links, protection_links_other, store_orders,
                    store_fills, brokerVars,
                    streamVars, refresh_event, triggered_by_event, wait_left,
                    since_last_sync_at, fetched, cmdVars, unitVars >>

\* last_sync_at = time.monotonic(); the next iteration starts its wait
SyncStamp ==
    /\ sync_pc = "stamp"
    /\ since_last_sync_at' = 0
    /\ sync_pc' = "wait"
    /\ wait_left' = settings.engine_poll_interval_seconds
    /\ UNCHANGED << settings, storeVars, brokerVars, streamVars, refresh_event,
                    triggered_by_event, sleep_left, fetched, sync_log, cmdVars,
                    unitVars >>

\* the sleep after a failed sync is over; the next iteration starts its wait
SyncRetry ==
    /\ sync_pc = "failed"
    /\ sleep_left = 0
    /\ sync_pc' = "wait"
    /\ wait_left' = settings.engine_poll_interval_seconds
    /\ UNCHANGED << settings, storeVars, brokerVars, streamVars, refresh_event,
                    triggered_by_event, sleep_left, since_last_sync_at, fetched,
                    sync_log, cmdVars, unitVars >>

SyncStep ==
    \/ SyncWaitEvent
    \/ SyncWaitTimeout
    \/ SyncCooldownEnd
    \/ SyncFetch
    \/ SyncWrite
    \/ SyncStamp
    \/ SyncRetry

\* one second passes: running timers count down, ages grow
Tick ==
    /\ wait_left' = IF sync_pc = "wait" /\ wait_left > 0 THEN wait_left - 1 ELSE wait_left
    /\ sleep_left' = IF sync_pc \in {"cooldown", "failed"} /\ sleep_left > 0
                     THEN sleep_left - 1 ELSE sleep_left
    /\ since_last_sync_at' = Min(since_last_sync_at + 1, AgeCap(settings))
    /\ sync_log' = [sync_log EXCEPT
                       !.since_success = Min(sync_log.since_success + 1, AgeCap(settings)),
                       !.since_call = IF sync_log.since_call = -1 THEN -1
                                      ELSE Min(sync_log.since_call + 1, CallAgeCap(settings))]
    /\ UNCHANGED << settings, storeVars, brokerVars, streamVars, refresh_event,
                    sync_pc, triggered_by_event, fetched, cmdVars, unitVars >>

-----------------------------------------------------------------------------
(* The command processor: command_loop, handle_command *)

\* a command payload: its symbol, its "qty" and "trail_percent" (<< >> when the
\* key is missing, else << value >>) and its "client_order_id" ("" when missing)
CmdPayload(symbol, qty, trail_percent, client_order_id) ==
    [symbol |-> symbol, qty |-> qty, qty_is_decimal |-> TRUE,
     trail_percent |-> trail_percent, client_order_id |-> client_order_id]

NoPayload == CmdPayload("", << >>, << >>, "")

\* a published Command; command_id is unique per published command (a uuid4),
\* here the tuple of what was published
Command(type, profile_id, payload) ==
    [command_id |-> << type, profile_id, payload >>,
     type |-> type, profile_id |-> profile_id, payload |-> payload]

\* the commands the bus delivers
Commands ==
    { Command("KILL_SWITCH", "default", NoPayload),
      Command("KILL_SWITCH", "other", NoPayload),
      Command("DRAFT_ORDER", "default", NoPayload),
      Command("CONFIRM_ORDER", "default", NoPayload),
      Command("TRAILING_STOP_SELL", "other", CmdPayload("aapl", << 10 >>, << >>, "")),
      Command("TRAILING_STOP_SELL", "default",
              [CmdPayload("aapl", << 10 >>, << >>, "") EXCEPT !.qty_is_decimal = FALSE]) }
      \cup { Command("TRAILING_STOP_SELL", "default", CmdPayload(y, << >>, << >>, ""))
             : y \in {"aapl", "AAPL", "msft", ""} }
      \cup { Command("TRAILING_STOP_SELL", "default", CmdPayload("aapl", << q >>, << >>, "ui-1"))
             : q \in {0, 10, 15} }
      \cup { Command("TRAILING_STOP_SELL", "default", CmdPayload("aapl", << >>, << t >>, ""))
             : t \in {0, 30} }
      \cup { Command("TRAILING_STOP_BUY", "default", CmdPayload("aapl", q, << >>, ""))
             : q \in {<< >>, << 0 >>, << 10 >>, << 15 >>} }
      \cup { Command("TRAILING_STOP_BUY", "default", CmdPayload("msft", << 15 >>, << 30 >>, "ui-2")) }

ProfileMatches_Always(command, s) == TRUE

\* line 102: command.profile_id != profile_id
ProfileMatches(command, s) == command.profile_id = s.engine_profile_id

\* faults of the calls _build_trailing_order makes
BuildFaults == {"none", "store.list_positions", "broker.get_positions"}

Built(kind, value, calls) == [kind |-> kind, value |-> value, calls |-> calls]

\* for position in positions: if position.symbol.upper() == symbol: the
\* quantity of the matching position, << >> without one
MatchPosition(positions, symbol) ==
    LET matching == { y \in DOMAIN positions : Upper(y) = symbol }
    IN  IF matching = {} THEN << >>
        ELSE << positions[CHOOSE y \in matching : TRUE] >>

ResolveTrailingQty_LiveOnly(payload, s, cached, live, fault) ==
    IF payload.qty # << >>
    THEN IF payload.qty_is_decimal THEN Built("qty", payload.qty[1], << >>)
         ELSE Built("raise", 0, << >>)
    ELSE IF Upper(payload.symbol) = "" THEN Built("none", 0, << >>)
    ELSE IF fault = "broker.get_positions"
            \/ MatchPosition(live, Upper(payload.symbol)) = << >>
    THEN Built("none", 0, << "broker.get_positions" >>)
    ELSE Built("qty", MatchPosition(live, Upper(payload.symbol))[1],
               << "broker.get_positions" >>)

\* _resolve_trailing_qty: kind "qty" with the quantity, "none", or "raise"
ResolveTrailingQty(payload, s, cached, live, fault) ==
    IF payload.qty # << >>
    THEN IF payload.qty_is_decimal THEN Built("qty", payload.qty[1], << >>)
         ELSE Built("raise", 0, << >>)
    ELSE
    LET symbol == Upper(payload.symbol)
        c1 == << "store.list_positions" >>
        c2 == Append(c1, "broker.get_positions")
    IN  IF symbol = "" THEN Built("none", 0, << >>)
        ELSE IF fault = "store.list_positions" THEN Built("raise", 0, c1)
        ELSE IF MatchPosition(cached, symbol) # << >>
        THEN Built("qty", MatchPosition(cached, symbol)[1], c1)
        ELSE IF fault = "broker.get_positions" THEN Built("none", 0, c2)
        ELSE IF MatchPosition(live, symbol) # << >>
        THEN Built("qty", MatchPosition(live, symbol)[1], c2)
        ELSE Built("none", 0, c2)

NormalizeTrailPercent_Default(raw, default_percent) == default_percent

\* _normalize_trail_percent
NormalizeTrailPercent(raw, default_percent) ==
    IF raw = << >> THEN default_percent ELSE raw[1]

\* the client order id of a command's request: the payload's, or
\* "trail-<side>-<random suffix>"
CommandClientId(payload, side) ==
    IF payload.client_order_id # "" THEN << payload.client_order_id >>
    ELSE << "trail", side, "uuid4" >>

\* _build_trailing_order: kind "request" with the request, "none", or "raise"
BuildTrailingOrder(payload, side, s, cached, live, fault) ==
    LET symbol == Upper(payload.symbol)
        trail_percent == NormalizeTrailPercent(payload.trail_percent,
                                               s.engine_trailing_default_percent)
        request(qty, tif) ==
            [symbol |-> symbol, side |-> side, qty |-> qty,
             trail_percent |-> trail_percent, time_in_force |-> tif,
             client_order_id |-> CommandClientId(payload, side)]
    IN  IF symbol = "" \/ trail_percent <= 0 THEN Built("none", NoneRec, << >>)
        ELSE IF side = "buy"
        THEN IF payload.qty = << >> THEN Built("none", NoneRec, << >>)
             ELSE IF ~payload.qty_is_decimal THEN Built("raise", NoneRec, << >>)
             ELSE IF s.engine_trailing_buy_tif \notin TimeInForceValues
             THEN Built("none", NoneRec, << >>)
             \* TrailingStopOrderRequest validates qty > 0
             ELSE IF payload.qty[1] <= 0 THEN Built("raise", NoneRec, << >>)
             ELSE Built("request", request(payload.qty[1], s.engine_trailing_buy_tif), << >>)
        ELSE
        LET resolved == ResolveTrailingQty(payload, s, cached, live, fault)
        IN  IF resolved.kind = "raise" THEN Built("raise", NoneRec, resolved.calls)
            ELSE IF resolved.kind = "none" THEN Built("none", NoneRec, resolved.calls)
            ELSE IF resolved.value <= 0 THEN Built("none", NoneRec, resolved.calls)
            ELSE IF s.engine_trailing_sell_tif \notin TimeInForceValues
            THEN Built("none", NoneRec, resolved.calls)
            ELSE Built("request", request(resolved.value, s.engine_trailing_sell_tif),
                       resolved.calls)

\* handle_command has returned: the loop awaits the next command
HandlerReturned(outcome) ==
    /\ cmd_pc' = "consume"
    /\ cmd_log' = [cmd_log EXCEPT !.outcome = outcome]

HandlerRaised_Propagates ==
    /\ cmd_pc' = "stopped"
    /\ cmd_log' = [cmd_log EXCEPT !.outcome = "failed", !.failed_before = TRUE]

\* handle_command has raised: command_loop's except Exception logs it and the
\* loop awaits the next command
HandlerRaised ==
    /\ cmd_pc' = "consume"
    /\ cmd_log' = [cmd_log EXCEPT !.outcome = "failed", !.failed_before = TRUE]

\* async for command in bus.consume(): the bus yields one of the commands
CmdConsumeFrom(commands) ==
    /\ cmd_pc = "consume"
    /\ cmd_log.handled < MaxCommands
    /\ \E command \in commands : cmd_current' = command
    /\ cmd_pc' = "handle"
    /\ cmd_calls' = << >>
    /\ cmd_request' = NoneRec
    /\ cmd_order' = NoneRec
    /\ cmd_log' = [cmd_log EXCEPT !.handled = cmd_log.handled + 1, !.outcome = "handling"]
    /\ UNCHANGED << settings, storeVars, brokerVars, streamVars, refresh_event, syncVars,
                    unitVars >>

\* the command loop consuming the commands the bus delivers
CmdConsume == CmdConsumeFrom(Commands)

\* handle_command up to its first await: the profile check, the dispatch on the
\* type, and _build_trailing_order
CmdDispatch ==
    /\ cmd_pc = "handle"
    /\ IF ~ProfileMatches(cmd_current, settings)
       THEN /\ HandlerReturned("ignored")
            /\ UNCHANGED << cmd_calls, cmd_request >>
       ELSE IF cmd_current.type = "KILL_SWITCH"
       THEN /\ cmd_pc' = "close"
            /\ UNCHANGED << cmd_calls, cmd_request, cmd_log >>
       ELSE IF cmd_current.type \in {"TRAILING_STOP_BUY", "TRAILING_STOP_SELL"}
       THEN \E fault \in BuildFaults :
              LET side == IF cmd_current.type = "TRAILING_STOP_BUY" THEN "buy" ELSE "sell"
                  built == BuildTrailingOrder(cmd_current.payload, side, settings,
                                              store_positions, broker_positions, fault)
              IN  /\ cmd_calls' = built.calls
                  /\ cmd_request' = built.value
                  /\ IF built.kind = "raise" THEN HandlerRaised
                     ELSE IF built.kind = "none" THEN HandlerReturned("dropped")
                     ELSE /\ cmd_pc' = "submit"
                          /\ cmd_log' = cmd_log
       ELSE /\ HandlerReturned("not_implemented")
            /\ UNCHANGED << cmd_calls, cmd_request >>
    /\ UNCHANGED << settings, storeVars, brokerVars, streamVars, refresh_event,
                    syncVars, cmd_current, cmd_order, unitVars >>

\* await to_thread(broker.close_all_positions, True): the broker closes the
\* account's positions, or the call raises
CmdClose ==
    /\ cmd_pc = "close"
    /\ cmd_calls' = Append(cmd_calls, "broker.close_all_positions(True)")
    /\ \/ /\ broker_closes' = broker_closes + 1
          /\ broker_positions' = NoPositions
          /\ cmd_pc' = "clear"
          /\ cmd_log' = cmd_log
       \/ /\ UNCHANGED << broker_closes, broker_positions >>
          /\ HandlerRaised
    /\ UNCHANGED << settings, storeVars, broker_orders, streamVars, refresh_event,
                    syncVars, cmd_current, cmd_request, cmd_order, unitVars >>

\* await to_thread(store.upsert_positions, profile_id, []): the cached positions
\* are replaced by none, or the call raises
CmdClear ==
    /\ cmd_pc = "clear"
    /\ cmd_calls' = Append(cmd_calls, "store.upsert_positions(profile_id, [])")
    /\ \/ /\ LET table == ReplacePositions(
                              PositionsTable(store_positions, store_positions_other),
                              settings.engine_profile_id, NoPositions)
             IN /\ store_positions' = table[settings.engine_profile_id]
                /\ store_positions_other' = table[OtherProfile]
          /\ cmd_pc' = "consume"
          /\ cmd_log' = [cmd_log EXCEPT !.outcome = "done", !.killed = TRUE]
       \/ /\ UNCHANGED << store_positions, store_positions_other >>
          /\ HandlerRaised
    /\ UNCHANGED << settings, protection_links, protection_links_other, store_orders,
                    store_fills, brokerVars,
                    streamVars, refresh_event, syncVars, cmd_current, cmd_request,
                    cmd_order, unitVars >>

\* await to_thread(broker.submit_trailing_stop_order, request): the broker
\* accepts the order, or the call raises
CmdSubmit ==
    /\ cmd_pc = "submit"
    /\ cmd_calls' = Append(cmd_calls, "broker.submit_trailing_stop_order")
    /\ \/ /\ cmd_order' = AcceptedOrder(broker_orders, cmd_request, None)
          /\ broker_orders' = Append(broker_orders, cmd_order')
          /\ cmd_pc' = "persist"
          /\ cmd_log' = [cmd_log EXCEPT !.submitted = @ \cup {cmd_current.command_id}]
       \/ /\ UNCHANGED << cmd_order, broker_orders >>
          /\ HandlerRaised
    /\ UNCHANGED << settings, storeVars, broker_positions, broker_closes, streamVars,
                    refresh_event, syncVars, cmd_current, cmd_request,
                    unitVars >>

\* await to_thread(store.upsert_order, profile_id, order, source="ui"), or the
\* call raises
CmdPersist ==
    /\ cmd_pc = "persist"
    /\ cmd_calls' = Append(cmd_calls, "store.upsert_order(source=ui)")
    /\ \/ /\ store_orders' = UpsertOrder(store_orders, cmd_order.order_id, "ui")
          /\ HandlerReturned("done")
       \/ /\ store_orders' = store_orders
          /\ HandlerRaised
    /\ UNCHANGED << settings, protection_links, protection_links_other, store_fills,
                    store_positions,
                    store_positions_other, brokerVars,
                    streamVars, refresh_event, syncVars, cmd_current, cmd_request,
                    cmd_order, unitVars >>

-----------------------------------------------------------------------------
(* The Command Bus: RedisCommandBus *)

\* the value of a CommandType member, as model_dump_json writes it
CommandTypeValue(type) ==
    CASE type = "KILL_SWITCH" -> "kill_switch"
      [] type = "DRAFT_ORDER" -> "draft_order"
      [] type = "CONFIRM_ORDER" -> "confirm_order"
      [] type = "TRAILING_STOP_BUY" -> "trailing_stop_buy"
      [] type = "TRAILING_STOP_SELL" -> "trailing_stop_sell"

\* the CommandType member of a value, None when validation finds none
CommandTypeMember(value) ==
    CASE value = "kill_switch" -> "KILL_SWITCH"
      [] value = "draft_order" -> "DRAFT_ORDER"
      [] value = "confirm_order" -> "CONFIRM_ORDER"
      [] value = "trailing_stop_buy" -> "TRAILING_STOP_BUY"
      [] value = "trailing_stop_sell" -> "TRAILING_STOP_SELL"
      [] OTHER -> None

\* an optional number of a payload as JSON: null or a number
ToJsonNumber(v) ==
    IF v = << >> THEN [json |-> "null"] ELSE [json |-> "number", text |-> v[1]]

FromJsonNumber(j) == IF j.json = "null" THEN << >> ELSE << j.text >>

\* command.model_dump_json(): the JSON document pushed on the list
ModelDumpJson(command) ==
    [command_id |-> command.command_id,
     type |-> CommandTypeValue(command.type),
     profile_id |-> command.profile_id,
     payload |-> [symbol |-> command.payload.symbol,
                  qty |-> ToJsonNumber(command.payload.qty),
                  qty_is_decimal |-> command.payload.qty_is_decimal,
                  trail_percent |-> ToJsonNumber(command.payload.trail_percent),
                  client_order_id |-> command.payload.client_order_id]]

\* Command.model_validate_json(payload): the Command, or NoneRec when it raises
ModelValidateJson(doc) ==
    IF "type" \notin DOMAIN doc THEN NoneRec
    ELSE IF CommandTypeMember(doc.type) = None
    THEN NoneRec
    ELSE [command_id |-> doc.command_id,
          type |-> CommandTypeMember(doc.type),
          profile_id |-> doc.profile_id,
          payload |-> [symbol |-> doc.payload.symbol,
                       qty |-> FromJsonNumber(doc.payload.qty),
                       qty_is_decimal |-> doc.payload.qty_is_decimal,
                       trail_percent |-> FromJsonNumber(doc.payload.trail_percent),
                       client_order_id |-> doc.payload.client_order_id]]

\* LPUSH: the item becomes the head of the list
LPush(items, item) == << item >> \o items

\* a pop of the head of the list
BRPop_Head(items) == [item |-> items[1], rest |-> SubSeq(items, 2, Len(items))]

\* BRPOP on a list that is not empty: the tail of the list is removed
BRPop(items) == [item |-> items[Len(items)], rest |-> SubSeq(items, 1, Len(items) - 1)]

\* the list and the consumer before anything was published: consume is at its
\* read; places in publish order of the items it logged and dropped; the delay
\* of its last sleep
EmptyBus ==
    [items |-> << >>, published |-> << >>, yielded |-> << >>,
     pc |-> "read", dropped |-> << >>, delay |-> 0]

\* the commands published to the bus
BusCommands ==
    { Command("KILL_SWITCH", "default", NoPayload),
      Command("TRAILING_STOP_BUY", "default", CmdPayload("aapl", << 10 >>, << 20 >>, "ui-1")),
      Command("TRAILING_STOP_SELL", "other", CmdPayload("AAPL", << >>, << >>, "")) }

\* bus.publish(command): lpush of the command's JSON
BusPublish ==
    /\ Len(bus.published) < MaxPublished
    /\ \E command \in BusCommands :
         bus' = [bus EXCEPT
                   !.items = LPush(bus.items, [doc |-> ModelDumpJson(command),
                                               n |-> Len(bus.published) + 1]),
                   !.published = Append(bus.published, command)]
    /\ UNCHANGED << settings, storeVars, brokerVars, streamVars, refresh_event,
                    syncVars, cmdVars, ruleVars, store_calls, order_records, engine >>

\* what other writers leave on the list: text that is no JSON document, and a
\* document whose type is no CommandType
MalformedDocs ==
    { [text |-> "not json"],
      [ModelDumpJson(Command("KILL_SWITCH", "default", NoPayload)) EXCEPT !.type = "bogus"] }

\* another writer pushes an item that is no Command
BusPushMalformed ==
    /\ Len(bus.published) < MaxPublished
    /\ \E doc \in MalformedDocs :
         bus' = [bus EXCEPT
                   !.items = LPush(bus.items, [doc |-> doc, n |-> Len(bus.published) + 1]),
                   !.published = Append(bus.published, NoneRec)]
    /\ UNCHANGED << settings, storeVars, brokerVars, streamVars, refresh_event,
                    syncVars, cmdVars, ruleVars, store_calls, order_records, engine >>

DecodeFailed_Requeues(b, popped) ==
    [b EXCEPT !.items = LPush(popped.rest, popped.item),
              !.dropped = Append(b.dropped, popped.item.n)]

\* lines 40-42: model_validate_json raised: the payload is logged and the loop
\* goes on to its next read
DecodeFailed(b, popped) ==
    [b EXCEPT !.items = popped.rest, !.dropped = Append(b.dropped, popped.item.n)]

\* lines 29-32: brpop raised: the failure is logged and asyncio.sleep(1) starts
ReadFailed(b, items) == [b EXCEPT !.items = items, !.pc = "sleep", !.delay = 1]

\* one round of bus.consume() on a list that is not empty: brpop returns the
\* item, which is decoded and yielded, or logged and skipped when decoding
\* raises
BusConsume ==
    /\ bus.pc = "read"
    /\ bus.items # << >>
    /\ LET popped == BRPop(bus.items)
           command == ModelValidateJson(popped.item.doc)
       IN  IF command = NoneRec
           THEN bus' = DecodeFailed(bus, popped)
           ELSE bus' = [bus EXCEPT
                          !.items = popped.rest,
                          !.yielded = Append(bus.yielded,
                                             [command |-> command, n |-> popped.item.n])]
    /\ UNCHANGED << settings, storeVars, brokerVars, streamVars, refresh_event,
                    syncVars, cmdVars, ruleVars, store_calls, order_records, engine >>

\* brpop raises: the list is as it was, or the server had removed the item
\* before the reply was lost
BusReadFails ==
    /\ bus.pc = "read"
    /\ \/ bus' = ReadFailed(bus, bus.items)
       \/ /\ bus.items # << >>
          /\ bus' = ReadFailed(bus, BRPop(bus.items).rest)
    /\ UNCHANGED << settings, storeVars, brokerVars, streamVars, refresh_event,
                    syncVars, cmdVars, ruleVars, store_calls, order_records, engine >>

\* asyncio.sleep(1) is over: continue, the next read
BusRetry ==
    /\ bus.pc = "sleep"
    /\ bus' = [bus EXCEPT !.pc = "read"]
    /\ UNCHANGED << settings, storeVars, brokerVars, streamVars, refresh_event,
                    syncVars, cmdVars, ruleVars, store_calls, order_records, engine >>

-----------------------------------------------------------------------------
(* The supervisor: run_engine *)

\* lines 162-170: the tasks run_engine creates
StartedWorkers(s) ==
    {"sync_positions_loop", "command_loop"}
        \cup (IF s.engine_enable_trading_ws THEN {"run_trading_stream"} ELSE {})

\* run_engine when it is called
EngineCalled ==
    [pc |-> "build", store_built |-> FALSE, bus_built |-> FALSE, tasks |-> {},
     bus_closed |-> FALSE, store_closed |-> FALSE, outcome |-> "none"]

\* run_engine awaiting its workers
EngineRunning(s) ==
    [EngineCalled EXCEPT !.pc = "gather", !.store_built = TRUE, !.bus_built = TRUE,
                         !.tasks = StartedWorkers(s)]

\* lines 138-150: Settings(), the broker, the store and the command bus are
\* constructed in this order; a constructor that raises ends run_engine
EngineBuild ==
    /\ engine.pc = "build"
    /\ \E raises \in {"none", "broker", "store", "bus"} :
         engine' = CASE raises = "none" ->
                          [engine EXCEPT !.pc = "start", !.store_built = TRUE,
                                         !.bus_built = TRUE]
                     [] raises = "bus" ->
                          [engine EXCEPT !.pc = "exited", !.store_built = TRUE,
                                         !.outcome = "raised"]
                     [] OTHER ->
                          [engine EXCEPT !.pc = "exited", !.outcome = "raised"]
    /\ UNCHANGED << settings, storeVars, brokerVars, streamVars, refresh_event,
                    syncVars, cmdVars, ruleVars, store_calls, order_records, bus >>

\* lines 152-170: the tasks are created
EngineStart ==
    /\ engine.pc = "start"
    /\ engine' = [engine EXCEPT !.pc = "gather", !.tasks = StartedWorkers(settings)]
    /\ UNCHANGED << settings, storeVars, brokerVars, streamVars, refresh_event,
                    syncVars, cmdVars, ruleVars, store_calls, order_records, bus >>

\* line 173: await asyncio.gather(*tasks) returns, or raises what a worker
\* raised or the cancellation of run_engine; the finally clause is entered
EngineGather ==
    /\ engine.pc = "gather"
    /\ \E outcome \in {"returned", "raised"} :
         engine' = [engine EXCEPT !.pc = "close_bus", !.outcome = outcome]
    /\ UNCHANGED << settings, storeVars, brokerVars, streamVars, refresh_event,
                    syncVars, cmdVars, ruleVars, store_calls, order_records, bus >>

\* run_engine is cancelled while it awaits gather: gather cancels the three
\* tasks. CancelledError is raised at the await the synchronizer and the command
\* processor are suspended on; it is not an Exception, so their except clauses
\* let it through and both tasks end. The task of the stream worker awaits
\* asyncio.to_thread: the await is cancelled, the thread running
\* run_trading_stream is not, and it goes on in its loop
EngineCancel ==
    /\ engine.pc = "gather"
    /\ engine' = [engine EXCEPT !.pc = "close_bus", !.outcome = "cancelled"]
    /\ sync_pc' = "cancelled"
    /\ cmd_pc' = "cancelled"
    /\ UNCHANGED << settings, storeVars, brokerVars, streamVars, refresh_event,
                    triggered_by_event, wait_left, sleep_left, since_last_sync_at,
                    fetched, sync_log, cmd_current, cmd_request, cmd_order,
                    cmd_calls, cmd_log, ruleVars, store_calls, order_records, bus >>

\* line 175: await bus.close() returns, or raises and ends run_engine
EngineCloseBus ==
    /\ engine.pc = "close_bus"
    /\ \/ engine' = [engine EXCEPT !.pc = "close_store", !.bus_closed = TRUE]
       \/ engine' = [engine EXCEPT !.pc = "exited", !.outcome = "raised"]
    /\ UNCHANGED << settings, storeVars, brokerVars, streamVars, refresh_event,
                    syncVars, cmdVars, ruleVars, store_calls, order_records, bus >>

\* line 176: store.close() disposes of the engine; run_engine ends
EngineCloseStore ==
    /\ engine.pc = "close_store"
    /\ engine' = [engine EXCEPT !.pc = "exited", !.store_closed = TRUE]
    /\ UNCHANGED << settings, storeVars, brokerVars, streamVars, refresh_event,
                    syncVars, cmdVars, ruleVars, store_calls, order_records, bus >>

-----------------------------------------------------------------------------
(* The environment of the engine *)

\* position books of the account (symbol held -> quantity)
PositionBooks ==
    { NoPositions } \cup { [y \in {"AAPL"} |-> q] : q \in {0, 10, 15} }

\* the account's positions change at the broker (fills, other clients)
BrokerPositionsChange(books) ==
    /\ \E book \in books : broker_positions' = book
    /\ broker_positions' # broker_positions
    /\ UNCHANGED << settings, storeVars, broker_orders, broker_closes, streamVars,
                    refresh_event, syncVars, cmdVars, unitVars >>

-----------------------------------------------------------------------------
(* Start of the engine *)

\* Settings: the fields the engine reads, over the values the runs explore
SettingsOver(enabled, sell_tifs, backoffs, min_intervals) ==
    [engine_profile_id : {"default"},
     engine_auto_protect_enabled : enabled,
     engine_auto_protect_order_types : {{"market", "limit"}},
     engine_trailing_default_percent : {20},
     engine_trailing_buy_tif : {"day"},
     engine_trailing_sell_tif : sell_tifs,
     engine_trading_ws_max_backoff_seconds : backoffs,
     engine_enable_trading_ws : {TRUE},
     engine_poll_interval_seconds : {2},
     engine_sync_min_interval_seconds : min_intervals]

\* the position rows another engine stored under its own profile id
OtherBook == [y \in {"TSLA"} |-> 30]

\* no call of the State Store on its own was made
NoCalls == [last |-> NoneRec, created |-> {}]

\* the engine after run_engine built the collaborators and the three workers
InitEngine(settings_set, store_books, broker_books) ==
    /\ settings \in settings_set
    /\ protection_links = [id \in EntryIds |-> None]
    /\ protection_links_other = [id \in EntryIds |-> None]
    /\ store_orders = [id \in OrderIds |-> Absent]
    /\ store_fills = << >>
    /\ store_positions \in store_books
    /\ store_positions_other = OtherBook
    /\ broker_positions \in broker_books
    /\ broker_orders = << >>
    /\ broker_closes = 0
    /\ stream_pc = "starting"
    /\ backoff_seconds = 1
    /\ attempts = 0
    /\ slept = NoneRec
    /\ last_update = [outcome |-> "none", signalled |-> FALSE, event |-> None,
                      rejected |-> FALSE, connection |-> 0]
    /\ loop_callbacks = FALSE
    /\ refresh_event = FALSE
    /\ sync_pc = "wait"
    /\ triggered_by_event = FALSE
    /\ wait_left = settings.engine_poll_interval_seconds
    /\ sleep_left = 0
    /\ since_last_sync_at \in {0, AgeCap(settings)}
    /\ fetched = NoneRec
    /\ sync_log = [synced |-> FALSE, since_success |-> 0, fetch_gap |-> -1,
                   cooldown |-> 0, unsynced |-> FALSE, previous |-> NoneRec,
                   signals |-> 0, triggered_syncs |-> 0, since_call |-> -1,
                   call_gap |-> -1, after_failure |-> FALSE, failed |-> FALSE]
    /\ cmd_pc = "consume"
    /\ cmd_current = NoneRec
    /\ cmd_request = NoneRec
    /\ cmd_order = NoneRec
    /\ cmd_calls = << >>
    /\ cmd_log = [handled |-> 0, outcome |-> "none", failed_before |-> FALSE,
                  submitted |-> {}, killed |-> FALSE]

\* the state after start-up, the sizing rule not being looked at on its own
InitWith(settings_set, store_books, broker_books) ==
    /\ InitEngine(settings_set, store_books, broker_books)
    /\ rule_qty = 0
    /\ rule_tif = "day"
    /\ rule_out = None
    /\ store_calls = NoCalls
    /\ order_records = << >>
    /\ engine = EngineRunning(settings)
    /\ bus = EmptyBus

\* the stream handler with auto-protect, the stores and the broker, on one
\* connection
InitStream ==
    InitWith(SettingsOver(BOOLEAN, {"gtc", "day"}, {3}, {0}),
             { NoPositions }, PositionBooks)

NextStream ==
    \/ StreamStart
    \/ StreamConnect
    \/ OnTradeUpdate(StreamFeed)
    \/ BrokerPositionsChange(PositionBooks)

SpecStream == InitStream /\ [][NextStream]_vars

\* the reconnect loop of the stream worker: connections that end cleanly, that
\* fail, and updates handled in between
ReconnectFeed ==
    { Update("new", BasePayload("O1"), NoFault),
      Update("fill", BasePayload("O1"), [NoFault EXCEPT !.protect = "get_positions"]) }

InitReconnect ==
    InitWith(SettingsOver({TRUE}, {"gtc"}, {1, 3}, {0}), { NoPositions }, { NoPositions })

NextReconnect ==
    \/ StreamStart
    \/ StreamConnect
    \/ OnTradeUpdate(ReconnectFeed)
    \/ RunCallback
    \/ StreamStop
    \/ StreamWake

SpecReconnect == InitReconnect /\ [][NextReconnect]_vars

\* the same worker when its thread keeps running: the import, a raised
\* stream.run(), the end of a sleep and the next connection are steps of the
\* worker's own code; how long a connection lasts is left open
SpecReconnectFair ==
    /\ InitReconnect
    /\ [][NextReconnect]_vars
    /\ WF_vars(StreamStart)
    /\ WF_vars(StreamConnect)
    /\ WF_vars(StreamStopAfterFailure)
    /\ WF_vars(StreamWake)

\* the position synchronizer, signalled by the stream worker's handler, with the
\* account's positions changing at the broker
SyncFeed == { Update("canceled", NoneRec, NoFault) }

SyncBooks == { NoPositions, [y \in {"AAPL"} |-> 10] }

InitSync ==
    InitWith(SettingsOver({TRUE}, {"gtc"}, {3}, {0, 3}), { NoPositions }, SyncBooks)

NextSync ==
    \/ StreamStart
    \/ StreamConnect
    \/ OnTradeUpdate(SyncFeed)
    \/ RunCallback
    \/ SyncStep
    \/ Tick
    \/ BrokerPositionsChange(SyncBooks)

SpecSync == InitSync /\ [][NextSync]_vars

\* the same workers under fair scheduling: the event loop runs every step that
\* is ready, calls handed to threads end, and time passes
InitSyncFair ==
    InitWith(SettingsOver({TRUE}, {"gtc"}, {3}, {0, 3}), { NoPositions }, { NoPositions })

NextSyncFair ==
    \/ StreamStart
    \/ StreamConnect
    \/ OnTradeUpdate(SyncFeed)
    \/ RunCallback
    \/ SyncStep
    \/ Tick

SpecSyncFair ==
    InitSyncFair /\ [][NextSyncFair]_vars /\ WF_vars(SyncStep) /\ WF_vars(Tick)

\* the command processor with the stores and the broker
CmdStoreBooks == { NoPositions, [y \in {"aapl"} |-> 15], [y \in {"AAPL"} |-> 0] }

CmdBrokerBooks == { NoPositions, [y \in {"AAPL"} |-> 10] }

\* settings of the command processor: both time-in-force settings vary
CmdSettings ==
    { [s EXCEPT !.engine_trailing_buy_tif = tif] :
        s \in SettingsOver({TRUE}, {"gtc", "day"}, {3}, {0}), tif \in {"day", "gtc"} }

InitCmd == InitWith(CmdSettings, CmdStoreBooks, CmdBrokerBooks)

NextCmd ==
    \/ CmdConsume
    \/ CmdDispatch
    \/ CmdClose
    \/ CmdClear
    \/ CmdSubmit
    \/ CmdPersist

SpecCmd == InitCmd /\ [][NextCmd]_vars

\* the order sizing rule on its own: called once with any quantity, integral,
\* fractional, negative or not comparable, and any time in force
Quantities == (-MaxQty..MaxQty) \cup {Infinity}

CoerceTif ==
    /\ rule_out = None
    /\ rule_out' = CoerceTifForFractional(rule_qty, rule_tif)
    /\ UNCHANGED << settings, storeVars, brokerVars, streamVars, refresh_event,
                    syncVars, cmdVars, rule_qty, rule_tif, store_calls, order_records, engine,
                    bus >>

InitRules ==
    /\ InitEngine(SettingsOver({TRUE}, {"gtc"}, {3}, {0}), { NoPositions }, { NoPositions })
    /\ rule_qty \in Quantities
    /\ rule_tif \in TimeInForceValues
    /\ rule_out = None
    /\ store_calls = NoCalls
    /\ order_records = << >>
    /\ engine = EngineRunning(settings)
    /\ bus = EmptyBus

NextRules == CoerceTif

SpecRules == InitRules /\ [][NextRules]_vars

\* run_engine from its call to its end, under every configuration of the
\* trading stream, of auto-protect, of the sell time in force, of the backoff
\* and of the minimum sync interval
EngineSettings ==
    { [s EXCEPT !.engine_enable_trading_ws = ws] :
        s \in SettingsOver({TRUE, FALSE}, {"gtc", "day"}, {1, 3}, {0, 3}),
        ws \in {TRUE, FALSE} }

InitSupervisor ==
    /\ InitEngine(EngineSettings, { NoPositions }, { NoPositions })
    /\ rule_qty = 0
    /\ rule_tif = "day"
    /\ rule_out = None
    /\ store_calls = NoCalls
    /\ order_records = << >>
    /\ engine = EngineCalled
    /\ bus = EmptyBus

NextSupervisor ==
    \/ EngineBuild
    \/ EngineStart
    \/ EngineGather
    \/ EngineCloseBus
    \/ EngineCloseStore

SpecSupervisor == InitSupervisor /\ [][NextSupervisor]_vars

\* the running engine when it is cancelled: the synchronizer polls, the command
\* processor waits for a command and the stream worker connects and reconnects
\* until the cancellation arrives; the stream worker's steps are those of its
\* own thread, which is scheduled fairly, as are the steps of run_engine
InitShutdown ==
    InitWith(SettingsOver({TRUE}, {"gtc"}, {1, 3}, {0}), { NoPositions }, { NoPositions })

StreamWorkerStep ==
    \/ StreamStart
    \/ StreamConnect
    \/ StreamStop
    \/ StreamWake

NextShutdown ==
    \/ StreamWorkerStep
    \/ SyncWaitTimeout
    \/ SyncFetch
    \/ SyncWrite
    \/ SyncStamp
    \/ SyncRetry
    \/ Tick
    \/ EngineCancel
    \/ EngineCloseBus
    \/ EngineCloseStore

SpecShutdown ==
    /\ InitShutdown
    /\ [][NextShutdown]_vars
    /\ WF_vars(StreamWorkerStep)
    /\ WF_vars(EngineCancel)
    /\ WF_vars(EngineCloseBus)
    /\ WF_vars(EngineCloseStore)

\* the kill switch next to the position synchronizer: the account holds a
\* position, the cache is empty, kill switch commands arrive while the
\* synchronizer polls, and nothing opens a position again
KillCommands == { Command("KILL_SWITCH", "default", NoPayload) }

InitKill ==
    InitWith(SettingsOver({TRUE}, {"gtc"}, {3}, {0}), { NoPositions },
             { [y \in {"AAPL"} |-> 10] })

NextKill ==
    \/ CmdConsumeFrom(KillCommands)
    \/ CmdDispatch
    \/ CmdClose
    \/ CmdClear
    \/ SyncWaitTimeout
    \/ SyncFetch
    \/ SyncWrite
    \/ SyncStamp
    \/ SyncRetry
    \/ Tick

SpecKill == InitKill /\ [][NextKill]_vars

\* the command bus on its own: commands are published, items that are no
\* commands are pushed by others, reads fail, and the list is consumed, in any
\* interleaving
InitBus ==
    InitWith(SettingsOver({TRUE}, {"gtc"}, {3}, {0}), { NoPositions }, { NoPositions })

NextBus ==
    \/ BusPublish
    \/ BusPushMalformed
    \/ BusConsume
    \/ BusReadFails
    \/ BusRetry

SpecBus == InitBus /\ [][NextBus]_vars

\* the fills table on its own: record_fill called any number of times, under
\* either profile, with fills that differ in one column each (order id,
\* quantity, price present or None, fill time present or None)
FillInputs ==
    { Fill("O1", 10, << 5 >>, << 1 >>), Fill("O2", 10, << 5 >>, << 1 >>),
      Fill("O1", 20, << 5 >>, << 1 >>), Fill("O1", 10, << >>, << 1 >>),
      Fill("O1", 10, << 5 >>, << >>) }

\* store.record_fill(profile_id, fill) returns, or raises and stores nothing
StoreRecordFill ==
    /\ Len(store_fills) < MaxFills
    /\ \E p \in Profiles, f \in FillInputs, outcome \in {"returned", "raised"} :
         /\ store_fills' = IF outcome = "returned"
                           THEN RecordFill(store_fills, p, f)
                           ELSE store_fills
         /\ store_calls' = [store_calls EXCEPT !.last =
                               [op |-> "record_fill", profile_id |-> p, fill |-> f,
                                outcome |-> outcome]]
    /\ UNCHANGED << settings, protection_links, protection_links_other, store_orders,
                    store_positions, store_positions_other, brokerVars, streamVars,
                    refresh_event, syncVars, cmdVars, ruleVars, order_records, engine, bus >>

InitFills ==
    InitWith(SettingsOver({TRUE}, {"gtc"}, {3}, {0}), { NoPositions }, { NoPositions })

NextFills == StoreRecordFill

SpecFills == InitFills /\ [][NextFills]_vars

\* the protection_links table on its own: create_protection_link called any
\* number of times, under either profile
LinkInputs == {"P1", "P2"}

\* store.create_protection_link(profile_id, entry_order_id, protection_order_id)
\* returns, or the insert is rejected and the call raises
StoreCreateProtectionLink ==
    /\ \E p \in Profiles, id \in EntryIds, pid \in LinkInputs :
         LET table == LinksTable(protection_links, protection_links_other)
             call(outcome) == [op |-> "create_protection_link", profile_id |-> p,
                               entry_order_id |-> id, protection_order_id |-> pid,
                               outcome |-> outcome]
         IN  IF LinkInsertRejected(table, p, id)
             THEN /\ UNCHANGED << protection_links, protection_links_other >>
                  /\ store_calls' = [store_calls EXCEPT !.last = call("raised")]
             ELSE LET after == CreateProtectionLink(table, p, id, pid)
                  IN  /\ protection_links' = after[settings.engine_profile_id]
                      /\ protection_links_other' = after[OtherProfile]
                      /\ store_calls' =
                            [last |-> call("returned"),
                             created |-> store_calls.created \cup {<< p, id >>}]
    /\ UNCHANGED << settings, store_orders, store_fills, store_positions,
                    store_positions_other, brokerVars, streamVars, refresh_event,
                    syncVars, cmdVars, ruleVars, order_records, engine, bus >>

InitLinks ==
    InitWith(SettingsOver({TRUE}, {"gtc"}, {3}, {0}), { NoPositions }, { NoPositions })

NextLinks == StoreCreateProtectionLink

SpecLinks == InitLinks /\ [][NextLinks]_vars

\* the orders table on its own: upsert_order called any number of times, under
\* either profile, with the sources the engine passes and with none
OrderInputs ==
    { Order("P1", "c1", "new", 0, 1), Order("P1", None, "filled", 10, 2),
      Order("P2", "c2", "new", 0, 1) }

OrderSources == {None, "ui", "auto_protect", "trade_update"}

\* the source of the stored record of an order id, Absent without a record
StoredSource(records, order_id) ==
    LET existing == ExistingOrderRecords(records, order_id)
    IN  IF existing = {} THEN Absent
        ELSE records[CHOOSE k \in existing : TRUE].source

\* store.upsert_order(profile_id, order, source=source) returns, or raises and
\* stores nothing
StoreUpsertOrder ==
    /\ \E p \in Profiles, order \in OrderInputs, source \in OrderSources,
          outcome \in {"returned", "raised"} :
         /\ order_records' = IF outcome = "returned"
                             THEN UpsertOrderRecord(order_records, p, order, source)
                             ELSE order_records
         /\ store_calls' = [store_calls EXCEPT !.last =
                               [op |-> "upsert_order", profile_id |-> p, order |-> order,
                                source |-> source, outcome |-> outcome,
                                replaced |-> StoredSource(order_records, order.order_id)]]
    /\ UNCHANGED << settings, storeVars, brokerVars, streamVars, refresh_event,
                    syncVars, cmdVars, ruleVars, engine, bus >>

InitOrders ==
    InitWith(SettingsOver({TRUE}, {"gtc"}, {3}, {0}), { NoPositions }, { NoPositions })

NextOrders == StoreUpsertOrder

SpecOrders == InitOrders /\ [][NextOrders]_vars

-----------------------------------------------------------------------------
(* Properties of the trade-update stream worker and auto-protect *)

\* protective orders the broker accepted for an entry order
ProtectiveOrdersFor(border, id) ==
    { i \in 1..Len(border) : border[i].entry = id }

Count(calls, name) == Cardinality({ i \in 1..Len(calls) : calls[i] = name })

\* C1: over any sequence of trade updates, redelivered fills and failing store
\* writes included, the broker accepts at most one protective trailing-stop sell
\* order per entry order id
C1_AtMostOneProtectiveOrderPerEntry ==
    \A id \in EntryIds : Cardinality(ProtectiveOrdersFor(broker_orders, id)) <= 1

\* the order of the payload carries bracket/OCO/OTO legs: its order class is
\* bracket, oco or oto, or it has legs, a stop_loss or a take_profit
CarriesLegs(payload) ==
    \/ NormalizeEnumText(payload.order_class) \in {"bracket", "oco", "oto"}
    \/ payload.legs \/ payload.stop_loss \/ payload.take_profit

\* the case of C2: auto-protect is enabled, the payload is a buy of an
\* allow-listed type without legs, its order has no link, the live position of
\* its symbol is positive
Eligible(payload, world, live) ==
    /\ settings.engine_auto_protect_enabled
    /\ payload.id \in EntryIds /\ payload.symbol # ""
    /\ NormalizeEnumText(payload.side) = "buy"
    /\ NormalizeEnumText(payload.type) \in settings.engine_auto_protect_order_types
    /\ ~CarriesLegs(payload)
    /\ world.links[payload.id] = None
    /\ Upper(payload.symbol) \in DOMAIN live /\ live[Upper(payload.symbol)] > 0

\* C2: auto-protect invoked for an eligible filled buy order, every call
\* succeeding, submits exactly one trailing stop and creates exactly one
\* protection link for the entry order; invoked again for the same entry order,
\* whatever the positions then are, it submits nothing and creates no link
C2_ExactlyOnceThenNoOp ==
    \A payload \in Payloads :
        Eligible(payload, StreamWorld, broker_positions) =>
            LET r == AutoProtectOnFill(payload, settings, StreamWorld,
                                       broker_positions, NoFault)
            IN  /\ ~r.raised
                /\ Count(r.calls, "broker.submit_trailing_stop_order") = 1
                /\ Len(r.st.border) = Len(broker_orders) + 1
                /\ r.st.links[payload.id] = r.st.border[Len(r.st.border)].order_id
                /\ \A id \in EntryIds \ {payload.id} :
                       r.st.links[id] = protection_links[id]
                /\ \A live \in PositionBooks :
                       LET again == AutoProtectOnFill(payload, settings, r.st, live, NoFault)
                       IN  /\ ~again.raised
                           /\ Count(again.calls, "broker.submit_trailing_stop_order") = 0
                           /\ again.st = r.st

\* a fill of an eligible order was handled with every call succeeding: its
\* order has one accepted protective order, stored and linked
C2_Witness ==
    \E id \in EntryIds :
        /\ protection_links[id] # None
        /\ Cardinality(ProtectiveOrdersFor(broker_orders, id)) = 1
        /\ store_orders[protection_links[id]] = "auto_protect"
        /\ last_update.outcome = "returned"
        /\ Eligible(BasePayload(id), [StreamWorld EXCEPT !.links[id] = None],
                    broker_positions)

RECURSIVE Pow2(_)
Pow2(n) == IF n <= 0 THEN 1 ELSE 2 * Pow2(n - 1)

\* C5: the base backoff slept after the k-th ended connection attempt is
\* min(2^(k-1), M), M = max(1, configured maximum): it never exceeds M, the next
\* base is never smaller, and the jitter of each sleep is between 0 and 0.5
C5_BackoffSchedule ==
    slept # NoneRec =>
        LET M == IF settings.engine_trading_ws_max_backoff_seconds > 1
                 THEN settings.engine_trading_ws_max_backoff_seconds ELSE 1
            expected == IF Pow2(attempts - 1) < M THEN Pow2(attempts - 1) ELSE M
        IN  /\ slept.base = expected
            /\ slept.base <= M
            /\ backoff_seconds >= slept.base
            /\ backoff_seconds <= M
            /\ slept.jitter >= 0 /\ slept.jitter <= 5

\* the third connection attempt has ended and the doubled backoff was capped
C5_Witness ==
    /\ slept # NoneRec
    /\ attempts = 3
    /\ settings.engine_trading_ws_max_backoff_seconds = 3
    /\ slept.base = 3
    /\ slept.jitter = 5

\* C6: no exception raised while one trade update is handled leaves the
\* per-event handler
C6_NoExceptionLeavesHandler == last_update.outcome # "raised"

\* C8: once a delivered trade update has been handled, whatever its kind and
\* whatever the outcome, the refresh signal has been set for it
C8_RefreshSignalledAfterEveryUpdate ==
    last_update.outcome # "none" => last_update.signalled

-----------------------------------------------------------------------------
(* Properties of the position synchronizer *)

\* C4: whatever the refresh signals, the broker fetch of each sync begins at
\* least min_interval_seconds after the previous successful sync completed
C4_MinIntervalBetweenSyncs ==
    sync_log.fetch_gap # -1 =>
        sync_log.fetch_gap >= settings.engine_sync_min_interval_seconds

\* a sync triggered by a refresh signal that came less than min_interval_seconds
\* after a successful sync has slept its cooldown and begun its fetch
C4_Witness ==
    /\ sync_pc = "fetch"
    /\ triggered_by_event
    /\ sync_log.synced
    /\ sync_log.cooldown > 0
    /\ settings.engine_sync_min_interval_seconds = 3
    /\ sync_log.fetch_gap = 3

\* C9: under fair scheduling, every refresh signal is followed by the begin of
\* a GetPositions call; a set signal is only ever cleared by the wait that
\* returns it, in the iteration that then syncs
C9_SignalLeadsToSync ==
    /\ sync_log.unsynced ~> ~sync_log.unsynced
    /\ [][ (refresh_event /\ ~refresh_event') =>
             (sync_pc = "wait" /\ triggered_by_event'
                /\ sync_pc' \in {"cooldown", "fetch"}) ]_vars

\* a signal was set while the synchronizer was busy and is still waiting
C9_Witness ==
    /\ sync_log.unsynced
    /\ refresh_event
    /\ sync_pc \in {"cooldown", "write", "stamp", "failed"}

-----------------------------------------------------------------------------
(* Properties of the command processor *)

CloseThenClear ==
    << "broker.close_all_positions(True)", "store.upsert_positions(profile_id, [])" >>

\* the command loop has finished with a KILL_SWITCH command
KillSwitchHandled ==
    /\ cmd_pc = "consume"
    /\ cmd_current # NoneRec
    /\ cmd_current.type = "KILL_SWITCH"

\* C3 as worded: a KILL_SWITCH command of the configured profile always results
\* in exactly one CloseAllPositions(true) call followed by exactly one
\* UpsertPositions(profile, []) call; one of another profile in no call
C3_KillSwitchAlwaysClosesAndClears ==
    KillSwitchHandled =>
        IF cmd_current.profile_id = settings.engine_profile_id
        THEN cmd_calls = CloseThenClear
        ELSE cmd_calls = << >>

\* C3: a KILL_SWITCH command of the configured profile makes exactly one
\* CloseAllPositions(true) call and, when that call returns, exactly one
\* UpsertPositions(profile, []) call after it, which empties the cached
\* positions when it returns; when CloseAllPositions raises, UpsertPositions is
\* not called; a KILL_SWITCH command of another profile makes no call
C3_KillSwitchClosesThenClears ==
    KillSwitchHandled =>
        IF cmd_current.profile_id = settings.engine_profile_id
        THEN /\ cmd_log.outcome \in {"done", "failed"}
             /\ cmd_log.outcome = "done" =>
                    cmd_calls = CloseThenClear /\ store_positions = NoPositions
             /\ cmd_log.outcome = "failed" =>
                    cmd_calls \in { << CloseThenClear[1] >>, CloseThenClear }
        ELSE cmd_calls = << >> /\ cmd_log.outcome = "ignored"

\* a kill switch of the configured profile has closed the positions and emptied
\* a cache that held a position
C3_Witness ==
    /\ KillSwitchHandled
    /\ cmd_current.profile_id = settings.engine_profile_id
    /\ cmd_log.outcome = "done"
    /\ cmd_calls = CloseThenClear
    /\ broker_closes = 1
    /\ store_positions = NoPositions

\* C7: an exception raised while one command is handled is caught by the loop,
\* which goes on to consume the next command and never ends for that reason
C7_CommandLoopSurvives ==
    /\ cmd_pc \in {"consume", "handle", "close", "clear", "submit", "persist"}
    /\ cmd_log.outcome = "failed" => cmd_pc = "consume"
    /\ (cmd_pc = "consume" /\ cmd_log.handled < MaxCommands) => ENABLED CmdConsume

\* after a command whose handling raised, a later command was handled to its end
C7_Witness ==
    /\ cmd_log.failed_before
    /\ cmd_log.outcome = "done"
    /\ cmd_pc = "consume"

\* C10: the request of a TRAILING_STOP_SELL command carries the configured sell
\* time-in-force passed through the fractional rule: DAY for a fractional
\* quantity under GTC, else the configured one
C10_SellTifCoerced ==
    (cmd_current # NoneRec /\ cmd_request # NoneRec
        /\ cmd_current.type = "TRAILING_STOP_SELL") =>
        cmd_request.time_in_force =
            IF cmd_request.qty % 10 # 0 /\ settings.engine_trailing_sell_tif = "gtc"
            THEN "day"
            ELSE settings.engine_trailing_sell_tif

\* the quantities of the positions of a book whose symbol is the given one,
\* letter case ignored
QtyHeld(book, symbol) ==
    { book[y] : y \in { z \in DOMAIN book : Upper(z) = Upper(symbol) } }

\* C11: a TRAILING_STOP_SELL command without a quantity takes the quantity of
\* the cached position of its symbol (case ignored) when there is one, and asks
\* the broker only when there is none; without a positive quantity, or with the
\* live query failing, nothing is submitted or persisted; with a quantity in the
\* payload neither the cache nor the broker is consulted
C11_SellQuantityResolution ==
    /\ \A c \in Commands, fault \in BuildFaults \ {"store.list_positions"} :
          (c.type = "TRAILING_STOP_SELL" /\ c.payload.symbol # ""
              /\ c.payload.qty_is_decimal
              /\ NormalizeTrailPercent(c.payload.trail_percent,
                                       settings.engine_trailing_default_percent) > 0) =>
             LET b == BuildTrailingOrder(c.payload, "sell", settings, store_positions,
                                         broker_positions, fault)
                 cached == QtyHeld(store_positions, c.payload.symbol)
                 live == QtyHeld(broker_positions, c.payload.symbol)
                 asked == { b.calls[i] : i \in 1..Len(b.calls) }
                 submits(q) == IF q > 0
                               THEN b.kind = "request" /\ b.value.qty = q
                               ELSE b.kind = "none"
             IN  IF c.payload.qty # << >>
                 THEN asked = {} /\ submits(c.payload.qty[1])
                 ELSE IF cached # {}
                 THEN /\ asked = {"store.list_positions"}
                      /\ \E q \in cached : submits(q)
                 ELSE /\ asked = {"store.list_positions", "broker.get_positions"}
                      /\ IF fault = "broker.get_positions" \/ live = {}
                         THEN b.kind = "none"
                         ELSE \E q \in live : submits(q)
    /\ cmd_log.outcome = "dropped" =>
          /\ cmd_order = NoneRec
          /\ Count(cmd_calls, "broker.submit_trailing_stop_order") = 0
          /\ Count(cmd_calls, "store.upsert_order(source=ui)") = 0

\* a sell command without a quantity found no cached position, took the
\* quantity of the live position, and its order was submitted and persisted
C11_Witness ==
    /\ cmd_pc = "consume"
    /\ cmd_current # NoneRec
    /\ cmd_current.type = "TRAILING_STOP_SELL"
    /\ cmd_current.payload.qty = << >>
    /\ cmd_log.outcome = "done"
    /\ cmd_request # NoneRec
    /\ QtyHeld(store_positions, cmd_current.payload.symbol) = {}
    /\ cmd_request.qty \in QtyHeld(broker_positions, cmd_current.payload.symbol)
    /\ cmd_calls = << "store.list_positions", "broker.get_positions",
                      "broker.submit_trailing_stop_order",
                      "store.upsert_order(source=ui)" >>

\* the command loop is handling, or was last handling, a TRAILING_STOP_BUY
\* command of the configured profile with a symbol, a quantity > 0 and a trail
\* percent > 0
BuyCommandCase ==
    /\ cmd_current # NoneRec
    /\ cmd_current.type = "TRAILING_STOP_BUY"
    /\ cmd_current.profile_id = settings.engine_profile_id
    /\ cmd_current.payload.symbol # ""
    /\ cmd_current.payload.qty # << >>
    /\ cmd_current.payload.qty_is_decimal
    /\ cmd_current.payload.qty[1] > 0
    /\ cmd_current.payload.trail_percent # << >>
          => cmd_current.payload.trail_percent[1] > 0

SubmitThenPersist ==
    << "broker.submit_trailing_stop_order", "store.upsert_order(source=ui)" >>

\* C15: a TRAILING_STOP_BUY command of the configured profile with symbol S,
\* quantity q > 0 and trail percent p > 0 submits exactly one request (BUY, S,
\* q, p, the configured buy time in force) and then upserts the order the
\* broker returned exactly once with source "ui"; when the submission raises,
\* no order is upserted
C15_BuyCommandSubmitsAndPersists ==
    (BuyCommandCase /\ cmd_pc # "handle") =>
        /\ cmd_request # NoneRec
        /\ cmd_request.side = "buy"
        /\ cmd_request.symbol = Upper(cmd_current.payload.symbol)
        /\ cmd_request.qty = cmd_current.payload.qty[1]
        /\ cmd_request.trail_percent =
              IF cmd_current.payload.trail_percent = << >>
              THEN settings.engine_trailing_default_percent
              ELSE cmd_current.payload.trail_percent[1]
        /\ cmd_request.time_in_force = settings.engine_trailing_buy_tif
        /\ cmd_pc = "consume" =>
              /\ cmd_log.outcome \in {"done", "failed"}
              /\ cmd_log.outcome = "done" =>
                    /\ cmd_calls = SubmitThenPersist
                    /\ cmd_order # NoneRec
                    /\ store_orders[cmd_order.order_id] = "ui"
              /\ cmd_order = NoneRec => cmd_calls = << SubmitThenPersist[1] >>
              /\ cmd_order # NoneRec => cmd_calls = SubmitThenPersist

\* a buy for a fractional quantity with its own trail percent, under a buy time
\* in force of GTC, was submitted and its order stored
C15_Witness ==
    /\ BuyCommandCase
    /\ cmd_pc = "consume"
    /\ cmd_log.outcome = "done"
    /\ cmd_request.qty = 15
    /\ cmd_request.trail_percent = 30
    /\ cmd_request.time_in_force = "gtc"
    /\ cmd_calls = SubmitThenPersist
    /\ store_orders[cmd_order.order_id] = "ui"

-----------------------------------------------------------------------------
(* Further properties of auto-protect and the stream worker *)

\* C12: a fill of an order that carries bracket/OCO/OTO legs never results in a
\* submitted protective order or a created protection link, whatever its side
\* and type
C12_BracketFillNeverProtected ==
    \A m \in StreamFeed :
        (stream_pc = "running" /\ m.data.order # NoneRec /\ m.data.event = "fill") =>
            (CarriesLegs(m.data.order) =>
                /\ Handled(m).requests = << >>
                /\ Handled(m).st.links = protection_links
                /\ Handled(m).st.border = broker_orders)

\* C14: the request auto-protect submits for an eligible fill is a SELL of the
\* order's symbol for the quantity of the broker's live position of that symbol
\* (not the filled quantity, not the cached positions), with the configured
\* default trail percent and the configured sell time in force, DAY instead of
\* GTC for a fractional quantity; after it the entry order has a protection link
C14_ProtectiveRequestFields ==
    \A payload \in Payloads :
        (stream_pc = "running" /\ Eligible(payload, StreamWorld, broker_positions)) =>
            LET r == AutoProtectOnFill(payload, settings, StreamWorld,
                                       broker_positions, NoFault)
                live == broker_positions[Upper(payload.symbol)]
            IN  /\ Len(r.requests) = 1
                /\ r.requests[1].side = "sell"
                /\ r.requests[1].symbol = Upper(payload.symbol)
                /\ r.requests[1].qty = live
                /\ r.requests[1].trail_percent = settings.engine_trailing_default_percent
                /\ r.requests[1].time_in_force =
                      IF live % 10 # 0 /\ settings.engine_trailing_sell_tif = "gtc"
                      THEN "day"
                      ELSE settings.engine_trailing_sell_tif
                /\ HasProtectionLink(LinksTable(r.st.links, r.st.links_other),
                                     settings.engine_profile_id, payload.id)

\* a fill was protected while the live position was fractional under GTC, and
\* the filled quantity and the cached positions differ from the live position
C14_Witness ==
    /\ last_update.outcome = "returned"
    /\ settings.engine_trailing_sell_tif = "gtc"
    /\ broker_positions = [y \in {"AAPL"} |-> 15]
    /\ store_positions = NoPositions
    /\ BasePayload("O1").filled_qty # 15
    /\ protection_links["O1"] # None
    /\ \E i \in 1..Len(broker_orders) :
          /\ broker_orders[i].entry = "O1"
          /\ broker_orders[i].side = "sell"
          /\ broker_orders[i].order_id = protection_links["O1"]

-----------------------------------------------------------------------------
(* Properties of the order sizing rule *)

\* C13: coerce_tif_for_fractional returns DAY for a quantity with a fractional
\* part under GTC, the given time in force for an integral quantity and for
\* any quantity under DAY; it always returns, and it treats a quantity that
\* cannot be compared as fractional
C13_CoerceTifForFractional ==
    rule_out # None =>
        LET comparable == rule_qty >= -MaxQty /\ rule_qty <= MaxQty
            fractional == \A n \in -MaxQty..MaxQty : rule_qty # 10 * n
        IN  /\ rule_out \in {"day", "gtc"}
            /\ (rule_tif = "gtc" /\ (~comparable \/ fractional)) => rule_out = "day"
            /\ (comparable /\ ~fractional) => rule_out = rule_tif
            /\ rule_tif = "day" => rule_out = "day"

\* the rule was called with a fractional quantity under GTC
C13_Witness ==
    /\ rule_out = "day"
    /\ rule_tif = "gtc"
    /\ rule_qty = 15


-----------------------------------------------------------------------------
(* Properties of the State Store *)

\* C16: a successful sync iteration leaves the engine profile's stored positions
\* equal to exactly the positions its own get_positions call returned (symbols
\* no longer held are gone, nothing of the previous snapshot is kept), and the
\* positions stored under other profiles as they were
C16_SyncReplacesProfilePositions ==
    [][(sync_pc = "write" /\ sync_pc' = "stamp") =>
          /\ store_positions' = fetched
          /\ DOMAIN store_positions' = DOMAIN fetched
          /\ store_positions_other' = store_positions_other]_vars

\* a sync has just replaced a snapshot holding AAPL by the empty set the broker
\* returned, and the other profile still has its rows
C16_Witness ==
    /\ sync_pc = "stamp"
    /\ sync_log.previous = [y \in {"AAPL"} |-> 10]
    /\ fetched = NoPositions
    /\ store_positions = NoPositions
    /\ store_positions_other = OtherBook
    /\ OtherBook # NoPositions


\* C17: the fills table never holds two rows with the same order id, quantity,
\* price and fill time; a record_fill call never changes or removes a stored
\* row, and one whose order id, quantity, price and fill time are already stored
\* leaves the table as it was
C17_FillsStoredOncePerTuple ==
    /\ [](\A i, j \in 1..Len(store_fills) :
             FillKey(store_fills[i]) = FillKey(store_fills[j]) => i = j)
    /\ [][/\ Len(store_fills') >= Len(store_fills)
          /\ SubSeq(store_fills', 1, Len(store_fills)) = store_fills
          /\ (/\ store_calls'.last # NoneRec
              /\ store_calls'.last.op = "record_fill"
              /\ FillStored(store_fills, store_calls'.last.fill))
             => store_fills' = store_fills]_vars

\* the last record_fill call returned without adding a row, because a row of
\* another profile already had its order id, quantity, price and fill time; a
\* row with the same order id and quantity but no price is stored beside it
C17_Witness ==
    /\ store_calls.last # NoneRec
    /\ store_calls.last.op = "record_fill"
    /\ store_calls.last.outcome = "returned"
    /\ Len(store_fills) = 2
    /\ \E i, j \in 1..Len(store_fills) :
         /\ FillKey(store_fills[i]) = FillKey(store_calls.last.fill)
         /\ store_fills[i].profile_id # store_calls.last.profile_id
         /\ store_fills[j].order_id = store_fills[i].order_id
         /\ store_fills[j].qty = store_fills[i].qty
         /\ store_fills[j].price = << >>
         /\ store_fills[i].price # << >>

\* the protection links stored, by profile id
StoredLinks == LinksTable(protection_links, protection_links_other)

\* C18: no entry order id has more than one protection link; a link, once
\* created, keeps its protection order id whatever create calls follow; and
\* has_protection_link(profile, id) holds exactly when a create call for that
\* profile and id has returned
C18_OneLinkPerEntryOrder ==
    /\ [](\A id \in EntryIds :
             Cardinality({ p \in Profiles : StoredLinks[p][id] # None }) <= 1)
    /\ [](\A p \in Profiles, id \in EntryIds :
             HasProtectionLink(StoredLinks, p, id)
                <=> << p, id >> \in store_calls.created)
    /\ [][/\ \A id \in EntryIds :
               /\ protection_links[id] # None =>
                     protection_links'[id] = protection_links[id]
               /\ protection_links_other[id] # None =>
                     protection_links_other'[id] = protection_links_other[id]]_vars

\* a second create call for an entry order id that was linked to P1 named P2
\* and returned; the link still names P1
C18_Witness ==
    /\ protection_links["O1"] = "P1"
    /\ store_calls.last # NoneRec
    /\ store_calls.last.op = "create_protection_link"
    /\ store_calls.last.profile_id = settings.engine_profile_id
    /\ store_calls.last.entry_order_id = "O1"
    /\ store_calls.last.protection_order_id = "P2"
    /\ store_calls.last.outcome = "returned"
    /\ HasProtectionLink(LinksTable(protection_links, protection_links_other),
                         settings.engine_profile_id, "O1")


-----------------------------------------------------------------------------
(* Properties of the reconnect loop *)

\* a connection attempt has ended, by an error or by a clean stop
AttemptEnded == stream_pc \in {"failed", "sleeping"}

-----------------------------------------------------------------------------
(* Properties of the supervisor *)

\* C20: run_engine starts the position synchronizer and the command processor,
\* and the stream worker exactly when the trading stream is enabled; and whenever
\* it has ended after that, its workers having returned or one having raised,
\* the command bus and the state store have both been closed
C20_WorkersStartedAndHandlesClosed ==
    /\ engine.pc \in {"gather", "close_bus", "close_store"} =>
          /\ {"sync_positions_loop", "command_loop"} \subseteq engine.tasks
          /\ "run_trading_stream" \in engine.tasks
                <=> settings.engine_enable_trading_ws
    /\ (engine.pc = "exited" /\ engine.tasks # {}) =>
          /\ engine.bus_closed
          /\ engine.store_closed


-----------------------------------------------------------------------------
(* Properties of command delivery *)

\* C21: a command delivered twice has its broker side effect once: the broker
\* never accepts an order for a command id it already accepted an order for
C21_DuplicateCommandSubmitsOnce ==
    [][(cmd_pc = "submit" /\ cmd_pc' = "persist") =>
          cmd_current.command_id \notin cmd_log.submitted]_vars


-----------------------------------------------------------------------------
(* Further properties of auto-protect: persistence and failure handling *)

\* C23: whenever no trade update is being handled, the broker has accepted a
\* protective order for an entry order id if and only if a protection link
\* exists for that entry order id
C23_AcceptedIffLinked ==
    \A id \in EntryIds :
        ProtectiveOrdersFor(broker_orders, id) # {} <=> protection_links[id] # None


\* the broker fails the submission of the protective order
SubmitFault == [NoFault EXCEPT !.protect = "submit"]

\* C24: when the broker fails the submission, auto-protect has made one
\* submission attempt, persisted no order, created no link and raised nothing;
\* invoked again for the same fill it attempts the submission again
C24_SubmitFailureAbandons ==
    stream_pc = "running" =>
    \A payload \in Payloads :
        Eligible(payload, StreamWorld, broker_positions) =>
            LET r == AutoProtectOnFill(payload, settings, StreamWorld,
                                       broker_positions, SubmitFault)
                again == AutoProtectOnFill(payload, settings, r.st,
                                           broker_positions, NoFault)
            IN  /\ ~r.raised
                /\ Count(r.calls, "broker.submit_trailing_stop_order") = 1
                /\ Len(r.requests) = 1
                /\ Count(r.calls, "store.upsert_order") = 0
                /\ Count(r.calls, "store.create_protection_link") = 0
                /\ r.st = StreamWorld
                /\ Count(again.calls, "broker.submit_trailing_stop_order") = 1
                /\ again.requests = r.requests
                /\ Len(again.st.border) = Len(broker_orders) + 1

\* a fill was handled whose submission the broker failed: the handler returned,
\* no protective order is accepted or stored and no link exists
C24_Witness ==
    /\ last_update.rejected
    /\ last_update.event = "fill"
    /\ last_update.outcome = "returned"
    /\ broker_orders = << >>
    /\ \A id \in EntryIds : protection_links[id] = None
    /\ \A id \in BrokerIds : store_orders[id] = Absent


\* event kinds of trade updates, as the feed spells them
EventKinds == {"fill", "FILL", "TradeEvent.FILL", "new", "partial_fill", "canceled"}

\* positions of a call in a sequence of calls
Places(calls, name) == { i \in 1..Len(calls) : calls[i] = name }

\* the calls auto-protect makes
AutoProtectCalls ==
    {"store.has_protection_link", "broker.get_positions",
     "broker.submit_trailing_stop_order", "store.create_protection_link"}

\* C25: handling a trade update with a valid order payload upserts the order
\* with source "trade_update" before anything else; a fill is recorded only for
\* a fill event, after the upsert, and auto-protect acts only after that; for
\* the event kinds new, partial_fill and canceled no fill is recorded, no live
\* position query is made and no protective order is submitted
C25_UpsertThenFillThenProtect ==
    stream_pc = "running" =>
    \A payload \in Payloads, event \in EventKinds :
        LET r == ProcessTradeUpdate([event |-> event, order |-> payload], settings,
                                    StreamWorld, broker_positions, NoFault)
            recorded == Places(r.calls, "store.record_fill")
        IN  /\ ~FromAlpacaRaises(payload) =>
                  /\ r.calls # << >>
                  /\ r.calls[1] = "store.upsert_order"
                  /\ r.st.orders[payload.id] = "trade_update"
            /\ recorded # {} =>
                  /\ event \in {"fill", "FILL", "TradeEvent.FILL"}
                  /\ Cardinality(recorded) = 1
                  /\ \A i \in Places(r.calls, "store.upsert_order") :
                        i = 1 \/ \A k \in recorded : k < i
                  /\ \A i \in 1..Len(r.calls) :
                        r.calls[i] \in AutoProtectCalls => \A k \in recorded : k < i
            /\ event \in {"new", "partial_fill", "canceled"} =>
                  /\ r.st.fills = store_fills
                  /\ r.st.border = broker_orders
                  /\ r.st.links = protection_links
                  /\ r.requests = << >>
                  /\ \A i \in 1..Len(r.calls) : r.calls[i] = "store.upsert_order"

\* a partial_fill event for an order the policy would protect was handled: the
\* order is stored with source "trade_update", no fill is recorded and no
\* protective order exists
C25_Witness ==
    /\ last_update.event = "partial_fill"
    /\ last_update.outcome = "returned"
    /\ store_orders["O1"] = "trade_update"
    /\ store_fills = << >>
    /\ broker_orders = << >>
    /\ Eligible(BasePayload("O1"), StreamWorld, broker_positions)


-----------------------------------------------------------------------------
(* Further properties of the position synchronizer *)

\* the wait of an iteration has just ended
WaitEnds == sync_pc = "wait" /\ sync_pc' # "wait"

\* C26: the refresh signal is one flag: only the callback scheduled by the
\* stream handler sets it; only the synchronizer clears it, when its wait was
\* ended by the signal and before the fetch begins; a wait that timed out leaves
\* it alone; however many signals were set before the wait, they trigger one
\* sync, not one sync per signal
C26_SignalIsOneFlag ==
    /\ [](sync_log.triggered_syncs <= 1)
    /\ [][ (~refresh_event /\ refresh_event') => (loop_callbacks /\ ~loop_callbacks') ]_vars
    /\ [][ (refresh_event /\ ~refresh_event') =>
              (WaitEnds /\ triggered_by_event' /\ sync_pc' \in {"cooldown", "fetch"}) ]_vars
    /\ [][ (WaitEnds /\ ~triggered_by_event') => refresh_event' = refresh_event ]_vars
    /\ [][ (WaitEnds /\ triggered_by_event') =>
              (refresh_event /\ ~refresh_event' /\ sync_log.signals >= 1) ]_vars

\* two signals were set before the synchronizer looked; its wait was ended by
\* the signal, the flag is clear and one sync triggered by it has begun its fetch
C26_Witness ==
    /\ sync_log.signals = 2
    /\ sync_log.triggered_syncs = 1
    /\ triggered_by_event
    /\ ~refresh_event
    /\ sync_pc = "fetch"

\* C27 as stated: two consecutive GetPositions calls are never less than
\* min_interval_seconds apart, whatever the signals and the failures
C27_CallsMinIntervalApart ==
    sync_log.call_gap # -1 =>
        sync_log.call_gap >= settings.engine_sync_min_interval_seconds

\* C27, amended: a GetPositions call begins at least min_interval_seconds after
\* the previous one when the sync of the previous one succeeded, and at least
\* one second after it when that iteration failed
C27_CallsApartAfterSuccess ==
    sync_log.call_gap # -1 =>
        IF sync_log.after_failure
        THEN sync_log.call_gap >= 1
        ELSE sync_log.call_gap >= settings.engine_sync_min_interval_seconds

\* a sync triggered by a signal has begun its fetch one second after the
\* GetPositions call of a failed iteration, with a minimum interval of 3
C27_Witness ==
    /\ sync_pc = "fetch"
    /\ triggered_by_event
    /\ sync_log.after_failure
    /\ sync_log.call_gap = 1
    /\ settings.engine_sync_min_interval_seconds = 3

\* an iteration of the synchronizer has just ended with an exception
IterationFails == sync_pc \in {"fetch", "write"} /\ sync_pc' \notin {"fetch", "write", "stamp"}

\* C28: an exception raised by the fetch or by the store write of an iteration
\* is caught: the loop sleeps one second, then starts its next iteration, and
\* under fair scheduling calls GetPositions again
C28_FailureRetriedAfterDelay ==
    /\ [][ IterationFails => (sync_pc' = "failed" /\ sleep_left' = 1) ]_vars
    /\ [][ (sync_pc = "failed" /\ sync_pc' # "failed") =>
              (sleep_left = 0 /\ sync_pc' = "wait"
                 /\ wait_left' = settings.engine_poll_interval_seconds) ]_vars
    /\ (sync_pc = "failed") ~> (sync_pc = "wait")
    /\ (sync_pc = "failed") ~> (sync_pc = "fetch")

\* the store write of an iteration raised after an earlier sync had succeeded,
\* and the loop is again calling GetPositions
C28_Witness ==
    /\ sync_pc = "fetch"
    /\ sync_log.after_failure
    /\ sync_log.synced
    /\ sync_log.call_gap >= 1


-----------------------------------------------------------------------------
(* Properties of the shutdown *)

\* C29: once the engine is cancelled, the synchronizer and the command
\* processor have ended by the cancellation, and the stream worker stops too,
\* wherever it is: in its backoff sleep or in the blocking stream.run()
C29_AllWorkersStopOnShutdown ==
    /\ [](engine.outcome = "cancelled" =>
             (sync_pc = "cancelled" /\ cmd_pc = "cancelled"))
    /\ (engine.outcome = "cancelled") ~> (stream_pc \notin {"starting", "connecting", "running", "failed", "sleeping"})


-----------------------------------------------------------------------------
(* The skip conditions of auto-protect *)

\* a condition of the payload or of the settings that ends auto-protect before
\* the protection-link check
SkippedBeforeLinkCheck(payload) ==
    \/ ~settings.engine_auto_protect_enabled
    \/ payload.id = None \/ payload.symbol = ""
    \/ NormalizeEnumText(payload.side) # "buy"
    \/ NormalizeEnumText(payload.type) \notin settings.engine_auto_protect_order_types
    \/ CarriesLegs(payload)

\* the entry order of the payload has a protection link
AlreadyLinked(payload, world) ==
    payload.id \in EntryIds /\ world.links[payload.id] # None

\* the live position of the payload's symbol is absent or not positive
NoLivePosition(payload, live) ==
    \/ Upper(payload.symbol) \notin DOMAIN live
    \/ live[Upper(payload.symbol)] <= 0

\* C30: auto-protect submits no trailing stop and creates no link when it is
\* disabled, the order id or the symbol is missing, the side is not buy, the
\* type is not allow-listed, the order carries bracket/OCO/OTO legs, the entry
\* order is linked already, or the live position is absent or not positive; for
\* the conditions before the link check it calls neither the broker nor the store
C30_SkipsMakeNoSubmission ==
    stream_pc = "running" =>
    \A payload \in Payloads :
        LET r == AutoProtectOnFill(payload, settings, StreamWorld, broker_positions, NoFault)
        IN  /\ (\/ SkippedBeforeLinkCheck(payload)
                \/ AlreadyLinked(payload, StreamWorld)
                \/ NoLivePosition(payload, broker_positions)) =>
                   /\ Count(r.calls, "broker.submit_trailing_stop_order") = 0
                   /\ Count(r.calls, "store.create_protection_link") = 0
                   /\ r.requests = << >>
                   /\ r.st.links = protection_links
                   /\ r.st.border = broker_orders
            /\ SkippedBeforeLinkCheck(payload) =>
                   /\ r.calls = << >>
                   /\ r.st = StreamWorld


-----------------------------------------------------------------------------
(* Further properties of the command processor *)

\* a request the broker may be handed: symbol not blank, quantity and trail
\* percent positive
WellFormedRequest(request) ==
    /\ request.symbol # ""
    /\ request.qty > 0
    /\ request.trail_percent > 0

\* the trail percent of a command: the payload's, else the configured default
ResolvedTrailPercent(payload) ==
    IF payload.trail_percent = << >>
    THEN settings.engine_trailing_default_percent
    ELSE payload.trail_percent[1]

\* a trailing-stop command that must be dropped: blank symbol, trail percent not
\* positive, a buy without quantity, or a quantity that is not positive
MustBeDropped(c) ==
    \/ c.payload.symbol = ""
    \/ ResolvedTrailPercent(c.payload) <= 0
    \/ c.type = "TRAILING_STOP_BUY" /\ c.payload.qty = << >>
    \/ c.payload.qty # << >> /\ c.payload.qty_is_decimal /\ c.payload.qty[1] <= 0

NotForThisEngine ==
    /\ cmd_pc = "handle"
    /\ \/ cmd_current.profile_id # settings.engine_profile_id
       \/ cmd_current.type \in {"DRAFT_ORDER", "CONFIRM_ORDER"}

\* C32: a command of another profile, whatever its type, and a command of a
\* type without a handler (DRAFT_ORDER, CONFIRM_ORDER) is handled without a
\* call to the broker or to the store, changes neither, and raises nothing
C32_ForeignAndUnhandledAreNoOps ==
    /\ [](cmd_log.outcome \in {"ignored", "not_implemented"} => cmd_calls = << >>)
    /\ [][ NotForThisEngine =>
             /\ cmd_pc' = "consume"
             /\ cmd_log'.outcome \in {"ignored", "not_implemented"}
             /\ cmd_log'.failed_before = cmd_log.failed_before
             /\ cmd_calls' = << >>
             /\ UNCHANGED << storeVars, brokerVars >> ]_vars

\* a CONFIRM_ORDER command of the configured profile was handled: no call was
\* made and the loop waits for the next command
C32_Witness ==
    /\ cmd_current # NoneRec
    /\ cmd_current.type = "CONFIRM_ORDER"
    /\ cmd_log.outcome = "not_implemented"
    /\ cmd_calls = << >>
    /\ cmd_pc = "consume"


-----------------------------------------------------------------------------
(* Properties of the orders table *)

\* the last call of the store was an upsert_order that returned
UpsertReturned(call) ==
    /\ call # NoneRec
    /\ call.op = "upsert_order"
    /\ call.outcome = "returned"

\* C33: after any sequence of upsert_order calls the table holds at most one
\* record per broker order id; an upsert for an id that is stored adds no
\* record and leaves the one record of that id with the status, the quantity
\* and the timestamp of the call, every other record being left as it was; an
\* upsert for an id that is not stored adds exactly one record
C33_OneRecordPerBrokerOrderId ==
    /\ [](\A i, k \in 1..Len(order_records) :
             order_records[i].broker_order_id = order_records[k].broker_order_id => i = k)
    /\ [][ UpsertReturned(store_calls'.last) =>
             LET order == store_calls'.last.order
                 before == ExistingOrderRecords(order_records, order.order_id)
                 after == ExistingOrderRecords(order_records', order.order_id)
             IN  /\ Cardinality(after) = 1
                 /\ Len(order_records') = Len(order_records) + (IF before = {} THEN 1 ELSE 0)
                 /\ before # {} => after = before
                 /\ \A i \in after :
                       /\ order_records'[i].status = order.status
                       /\ order_records'[i].filled_qty = order.filled_qty
                       /\ order_records'[i].updated_at = order.updated_at
                 /\ \A i \in 1..Len(order_records) :
                       i \notin before => order_records'[i] = order_records[i] ]_vars

\* order P1 was stored as new with client order id c1 and then upserted as
\* filled, under the other profile: one record, filled, with the first call's
\* client order id, next to the record of P2
C33_Witness ==
    /\ UpsertReturned(store_calls.last)
    /\ store_calls.last.order = Order("P1", None, "filled", 10, 2)
    /\ store_calls.last.profile_id = OtherProfile
    /\ Len(order_records) = 2
    /\ order_records[1].broker_order_id = "P1"
    /\ order_records[1].status = "filled"
    /\ order_records[1].filled_qty = 10
    /\ order_records[1].client_order_id = "c1"
    /\ order_records[1].profile_id = "default"


\* C40: the stored source of an order is the source of the most recent upsert
\* that gave one: an upsert with a source leaves the record with that source,
\* "trade_update" over "ui" or "auto_protect" included; an upsert without a
\* source leaves the source of a stored record as it was; the handler of trade
\* updates upserts with source "trade_update"
C40_SourceOfLastUpsertThatGaveOne ==
    /\ [][ UpsertReturned(store_calls'.last) =>
             LET call == store_calls'.last
                 stored == StoredSource(order_records', call.order.order_id)
             IN  /\ call.replaced = StoredSource(order_records, call.order.order_id)
                 /\ call.source # None => stored = call.source
                 /\ (call.source = None /\ call.replaced # Absent) => stored = call.replaced
                 /\ (call.source = None /\ call.replaced = Absent) => stored = None ]_vars
    /\ [](\A id \in EntryIds, source \in {Absent, "ui", "auto_protect"} :
             LET orders == [store_orders EXCEPT ![id] = source]
                 r == ProcessTradeUpdate([event |-> "new", order |-> BasePayload(id)],
                                         settings, [StreamWorld EXCEPT !.orders = orders],
                                         broker_positions, NoFault)
             IN  r.st.orders[id] = "trade_update")

\* order P1 was stored with source "ui"; an upsert with source "trade_update"
\* returned and the record's source is "trade_update"
C40_Witness ==
    /\ UpsertReturned(store_calls.last)
    /\ store_calls.last.order.order_id = "P1"
    /\ store_calls.last.source = "trade_update"
    /\ store_calls.last.replaced = "ui"
    /\ StoredSource(order_records, "P1") = "trade_update"


-----------------------------------------------------------------------------
(* Further properties of the Command Bus *)

\* the places in publish order of the items in a sequence of items
PlacesOf(items) == { items[i].n : i \in 1..Len(items) }

\* C34: an item that cannot be decoded as a Command is dropped: it is never
\* yielded, it is not put back on the list, the consumer goes on to its next
\* read and later commands are still yielded; a read that fails is followed by
\* a sleep of 1 second and then by the next read, and the consumer never ends
C34_UndecodableDroppedReadRetried ==
    /\ [](bus.pc \in {"read", "sleep"})
    /\ [](\A i \in 1..Len(bus.yielded) : bus.published[bus.yielded[i].n] # NoneRec)
    /\ [](\A i \in 1..Len(bus.dropped) :
             /\ bus.published[bus.dropped[i]] = NoneRec
             /\ bus.dropped[i] \notin PlacesOf(bus.items)
             /\ bus.dropped[i] \notin PlacesOf(bus.yielded)
             /\ \A k \in 1..Len(bus.dropped) : bus.dropped[k] = bus.dropped[i] => k = i)
    /\ []((bus.pc = "read" /\ bus.items # << >>) => ENABLED BusConsume)
    /\ [][ Len(bus'.dropped) > Len(bus.dropped) =>
             (bus'.pc = "read" /\ bus'.yielded = bus.yielded
                /\ Len(bus'.items) = Len(bus.items) - 1) ]_vars
    /\ [][ (bus.pc = "read" /\ bus'.pc # "read") =>
             (bus'.pc = "sleep" /\ bus'.delay = 1 /\ bus'.yielded = bus.yielded
                /\ bus'.dropped = bus.dropped) ]_vars
    /\ [][ (bus.pc = "sleep" /\ bus'.pc # "sleep") =>
             (bus'.pc = "read" /\ bus'.items = bus.items) ]_vars

\* the first item pushed was no Command and was dropped; a read failed and was
\* retried; the command published after them was yielded and the list is empty
C34_Witness ==
    /\ bus.dropped = << 1 >>
    /\ bus.delay = 1
    /\ bus.pc = "read"
    /\ Len(bus.published) = 2
    /\ Len(bus.yielded) = 1
    /\ bus.yielded[1].n = 2
    /\ bus.items = << >>


-----------------------------------------------------------------------------
(* The kill switch and the position synchronizer *)

\* C35: once a kill switch was handled to its end, with the account closed and
\* nothing opening a position again, the cache never afterwards holds a
\* position: a position in it would have been fetched before the close
C35_NoStaleSnapshotAfterKill ==
    cmd_log.killed => store_positions = NoPositions

\* C36: when close_all_positions raises while a kill switch is handled,
\* upsert_positions is not called, the cached and the account's positions are
\* left as they were, the loop is back at consuming and a later command can be
\* consumed
C36_FailedCloseLeavesSnapshot ==
    /\ [][ (cmd_pc = "close" /\ cmd_pc' # "clear") =>
             /\ cmd_pc' = "consume"
             /\ cmd_log'.outcome = "failed"
             /\ cmd_calls' = << CloseThenClear[1] >>
             /\ UNCHANGED << storeVars, brokerVars >> ]_vars
    /\ []((KillSwitchHandled /\ cmd_calls = << CloseThenClear[1] >>) =>
             (cmd_log.outcome = "failed"
                /\ (cmd_log.handled < MaxCommands => ENABLED CmdConsume)))
    /\ [][ cmd_pc # "clear" => store_positions' = store_positions ]_vars

\* the kill switch found the cache holding a position; close_all_positions
\* raised; the cache still holds the position, nothing was closed and the loop
\* waits for the next command
C36_Witness ==
    /\ KillSwitchHandled
    /\ cmd_current.profile_id = settings.engine_profile_id
    /\ cmd_log.outcome = "failed"
    /\ cmd_calls = << CloseThenClear[1] >>
    /\ store_positions = [y \in {"aapl"} |-> 15]
    /\ broker_closes = 0
    /\ cmd_log.handled = 1


-----------------------------------------------------------------------------
(* Protection of several entry orders of one symbol *)

\* the account holds a positive quantity of the payload's symbol
HeldIn(payload, live) ==
    Upper(payload.symbol) \in DOMAIN live /\ live[Upper(payload.symbol)] > 0

\* C37: protection is keyed by the entry order id, not by the symbol: when two
\* distinct eligible buy orders of one symbol fill one after the other, each is
\* given its own protective sell order and its own link, and each protective
\* order is for the whole live position of the symbol at that time, not for the
\* filled quantity (neither order having a protective order yet, every call
\* succeeding)
C37_ProtectionPerEntryOrder ==
    stream_pc = "running" =>
    \A first, second \in EntryIds, later \in PositionBooks :
        LET a == BasePayload(first)
            b == [BasePayload(second) EXCEPT !.symbol = "AAPL", !.filled_qty = 10]
        IN  (/\ first # second
             /\ Eligible(a, StreamWorld, broker_positions)
             /\ protection_links[second] = None
             /\ ProtectiveOrdersFor(broker_orders, first) = {}
             /\ ProtectiveOrdersFor(broker_orders, second) = {}
             /\ HeldIn(b, later)) =>
                LET r1 == AutoProtectOnFill(a, settings, StreamWorld, broker_positions, NoFault)
                    r2 == AutoProtectOnFill(b, settings, r1.st, later, NoFault)
                IN  /\ Len(r1.requests) = 1 /\ Len(r2.requests) = 1
                    /\ r1.requests[1].symbol = "AAPL" /\ r2.requests[1].symbol = "AAPL"
                    /\ r1.requests[1].qty = broker_positions["AAPL"]
                    /\ r2.requests[1].qty = later["AAPL"]
                    /\ r2.st.links[first] # None /\ r2.st.links[second] # None
                    /\ r2.st.links[first] = r1.st.links[first]
                    /\ r2.st.links[first] # r2.st.links[second]
                    /\ Len(r2.st.border) = Len(broker_orders) + 2
                    /\ Cardinality(ProtectiveOrdersFor(r2.st.border, first)) = 1
                    /\ Cardinality(ProtectiveOrdersFor(r2.st.border, second)) = 1

\* the fills of O1 and of O2, both buys of AAPL, were handled: each order has
\* its link, to a protective sell order of its own
C37_Witness ==
    /\ last_update.event = "fill"
    /\ last_update.outcome = "returned"
    /\ protection_links["O1"] # None
    /\ protection_links["O2"] # None
    /\ protection_links["O1"] # protection_links["O2"]
    /\ \A id \in EntryIds :
          \E i \in 1..Len(broker_orders) :
             /\ broker_orders[i].entry = id
             /\ broker_orders[i].side = "sell"
             /\ broker_orders[i].order_id = protection_links[id]

\* the order of a fill update was not persisted: Order.from_alpaca raised or
\* store.upsert_order raised
OrderNotPersisted(m) == FromAlpacaRaises(m.data.order) \/ m.fault.order

\* C38: while a fill event is handled, a failure to parse or to upsert the order
\* prevents neither the recording of the event's fill nor the invocation of
\* auto-protect, and a failure to record the fill does not prevent the
\* invocation of auto-protect (an invocation that gets as far as the link check
\* shows as the call of store.has_protection_link)
C38_FailuresDoNotStopLaterSteps ==
    stream_pc = "running" =>
    \A m \in StreamFeed :
        (m.data.order # NoneRec /\ IsFillEvent(m.data.event)) =>
            LET r == Handled(m)
                payload == m.data.order
            IN  /\ (OrderNotPersisted(m) /\ BuildFillFromOrder(payload).kind # "none") =>
                       Places(r.calls, "store.record_fill") # {}
                /\ ((OrderNotPersisted(m) \/ m.fault.fill)
                        /\ ~SkippedBeforeLinkCheck(payload)) =>
                       Places(r.calls, "store.has_protection_link") # {}

\* one step of the stream worker as the backoff sees it: the backoff never gets
\* smaller; only the end of a sleep changes it, to min(2 * backoff, max); the
\* sleep that starts when a connection ends has the current backoff as its base,
\* however the connection ended and whatever it delivered; at the maximum the
\* backoff stays
BackoffKept ==
    /\ backoff_seconds' >= backoff_seconds
    /\ stream_pc # "sleeping" => backoff_seconds' = backoff_seconds
    /\ (stream_pc = "sleeping" /\ stream_pc' # "sleeping") =>
           backoff_seconds' = Min(2 * backoff_seconds, MaxBackoff(settings))
    /\ (stream_pc # "sleeping" /\ stream_pc' = "sleeping") =>
           /\ slept'.base = backoff_seconds
           /\ backoff_seconds = MaxBackoff(settings) => slept'.base = MaxBackoff(settings)
    /\ backoff_seconds = MaxBackoff(settings) => backoff_seconds' = MaxBackoff(settings)

\* C39: the reconnect backoff is never reset: a connection that stayed up and
\* delivered events before it ended is followed by the same doubled backoff as
\* a failed attempt, and once the backoff has reached the maximum every later
\* reconnect waits the maximum
C39_BackoffNeverReset == [][BackoffKept]_vars

\* the third connection delivered a trade update, which was handled, and then
\* stream.run() returned: the sleep before the next connection has the maximum
\* as its base
C39_Witness ==
    /\ stream_pc = "sleeping"
    /\ attempts = 3
    /\ slept # NoneRec
    /\ slept.after = "running"
    /\ last_update.outcome = "returned"
    /\ last_update.connection = 2
    /\ MaxBackoff(settings) = 3
    /\ slept.base = 3

====
